---- MODULE Spec2Model ----
(***************************************************************************)
(* State-machine model of the table tools of src/App.tsx: the              *)
(* dereplication tool (handleDereplication and its upload, undo and        *)
(* hand-over handlers) and the contaminant filter tool (handleApplyFilter  *)
(* and its upload, list and undo handlers).                                *)
(*                                                                         *)
(* A cell of a table (types.ts: string | number | null) is a pair of its   *)
(* type and its value; the value of a string is the sequence of its        *)
(* characters, so that trim, Number() and the prefix tests are computed    *)
(* and not assumed.  Numbers are integers.  A row is a function from       *)
(* column names to cells; a table is a record of headers and rows.         *)
(***************************************************************************)
EXTENDS Integers, Sequences, FiniteSets, TLC

VARIABLES
    dereplicationData,        \* useState, App.tsx:95
    dataBeforeDereplication,  \* useState, App.tsx:96
    isDereplicated,           \* useState, App.tsx:97
    filterToolData,           \* useState, App.tsx:100
    dataBeforeFilter,         \* useState, App.tsx:101
    contaminantList,          \* useState, App.tsx:102
    isFiltered,               \* useState, App.tsx:104
    isLoading,                \* useState, App.tsx:121
    contaminantText,          \* useState, App.tsx:103, as the list of its lines
    error,                    \* useState, App.tsx:122, "" for null
    pending,                  \* the uploads whose parseFile promise has not settled
    derepFile,                \* the file the user holds for the dereplication upload
    filterFile,               \* the file the user holds for the filter upload
    listFile,                 \* the file the user holds for the contaminant-list upload
    currentStep,              \* useState, App.tsx:88
    netTable,                 \* useState, App.tsx:89
    mergedData,               \* useState, App.tsx:90
    dataHistory,              \* useState, App.tsx:91
    allUnmatched,             \* useState, App.tsx:92, a function of the steps it records
    closure,                  \* what the pending call of handleFileProcess closed over
    workflowFiles,            \* per upload step, the file the user holds for it
    exported                  \* what exportFile was last called with

derepVars  == <<dereplicationData, dataBeforeDereplication, isDereplicated>>
filterVars == <<filterToolData, dataBeforeFilter, contaminantList, contaminantText, isFiltered>>
globalVars == <<isLoading, error, pending>>
fileVars   == <<derepFile, filterFile, listFile, workflowFiles>>
workflowVars == <<currentStep, netTable, mergedData, dataHistory, allUnmatched>>
vars       == <<derepVars, filterVars, globalVars, fileVars, workflowVars, closure, exported>>

(***************************************************************************)
(* Cells and strings                                                       *)
(***************************************************************************)
Null      == <<"null">>
Undefined == <<"undefined">>
Num(n)    == <<"number", n>>
Str(s)    == <<"string", s>>

TypeOf(c) == c[1]

IsSpace(c) == c = " "

RECURSIVE TrimStart(_)
TrimStart(s) ==
    IF s = <<>> THEN <<>>
    ELSE IF IsSpace(Head(s)) THEN TrimStart(Tail(s)) ELSE s

RECURSIVE TrimEnd(_)
TrimEnd(s) ==
    IF s = <<>> THEN <<>>
    ELSE IF IsSpace(s[Len(s)]) THEN TrimEnd(SubSeq(s, 1, Len(s) - 1)) ELSE s

\* String.prototype.trim
Trim(s) == TrimEnd(TrimStart(s))

Digits == <<"0", "1", "2", "3", "4", "5", "6", "7", "8", "9">>

IsDigit(c) == \E d \in 1..10 : Digits[d] = c

DigitValue(c) == (CHOOSE d \in 1..10 : Digits[d] = c) - 1

RECURSIVE DigitsValue(_)
DigitsValue(s) ==
    IF s = <<>> THEN 0
    ELSE 10 * DigitsValue(SubSeq(s, 1, Len(s) - 1)) + DigitValue(s[Len(s)])

RECURSIVE NatToChars(_)
NatToChars(n) ==
    IF n < 10 THEN <<Digits[n + 1]>>
    ELSE NatToChars(n \div 10) \o <<Digits[(n % 10) + 1]>>

\* String(v) of a cell: "null", "undefined", the decimal digits of a number
ToStr(c) ==
    CASE TypeOf(c) = "null"      -> <<"n", "u", "l", "l">>
      [] TypeOf(c) = "undefined" -> <<"u", "n", "d", "e", "f", "i", "n", "e", "d">>
      [] TypeOf(c) = "number"    -> IF c[2] < 0 THEN <<"-">> \o NatToChars(0 - c[2])
                                    ELSE NatToChars(c[2])
      [] OTHER                   -> c[2]

\* the result of Number(v): NaN, or an integer
NaN      == [nan |-> TRUE,  v |-> 0]
Val(n)   == [nan |-> FALSE, v |-> n]

\* Number(v) of a cell: null is 0, undefined is NaN, a blank string is 0, a
\* string of digits is its value, any other string is NaN
ToNumber(c) ==
    CASE TypeOf(c) = "null"      -> Val(0)
      [] TypeOf(c) = "undefined" -> NaN
      [] TypeOf(c) = "number"    -> Val(c[2])
      [] OTHER                   ->
            LET w == Trim(c[2])
            IN  IF w = <<>> THEN Val(0)
                ELSE IF \A i \in 1..Len(w) : IsDigit(w[i]) THEN Val(DigitsValue(w))
                ELSE NaN

\* JavaScript truthiness of a cell: null, undefined, 0 and "" are falsy
Truthy(c) ==
    CASE TypeOf(c) = "null"      -> FALSE
      [] TypeOf(c) = "undefined" -> FALSE
      [] TypeOf(c) = "number"    -> c[2] # 0
      [] OTHER                   -> c[2] # <<>>

(***************************************************************************)
(* Column names and tables                                                 *)
(***************************************************************************)
ID_COL         == "ID"
NAME_COL       == "name"
ANNOTATION_COL == "Final_Annotation"
STATUS_KEY     == "_derep_status"
QC_RSD_KEY     == "_qc_rsd"
AVG_KEY        == "_avg_intensity"

\* the characters of the column names whose spelling the program inspects
Chars(name) ==
    CASE name = "CON_1" -> <<"C", "O", "N", "_", "1">>
      [] name = "hbo_2" -> <<"h", "b", "o", "_", "2">>
      [] name = "QC-1"  -> <<"Q", "C", "-", "1">>
      [] name = "qc-2"  -> <<"q", "c", "-", "2">>
      [] name = "QC_3"  -> <<"Q", "C", "_", "3">>
      [] name = "ID"    -> <<"I", "D">>
      [] name = "name"  -> <<"n", "a", "m", "e">>
      [] name = "Final_Annotation" ->
            <<"F", "i", "n", "a", "l", "_", "A", "n", "n", "o", "t", "a", "t", "i", "o", "n">>

LowerCase == <<"a", "b", "c", "d", "e", "f", "g", "h", "i", "j", "k", "l", "m",
               "n", "o", "p", "q", "r", "s", "t", "u", "v", "w", "x", "y", "z">>
UpperCase == <<"A", "B", "C", "D", "E", "F", "G", "H", "I", "J", "K", "L", "M",
               "N", "O", "P", "Q", "R", "S", "T", "U", "V", "W", "X", "Y", "Z">>

\* String.prototype.toUpperCase
ToUpperChar(c) ==
    IF \E k \in 1..26 : LowerCase[k] = c
    THEN UpperCase[CHOOSE k \in 1..26 : LowerCase[k] = c]
    ELSE c

RECURSIVE ToUpperCase(_)
ToUpperCase(s) ==
    IF s = <<>> THEN <<>> ELSE <<ToUpperChar(Head(s))>> \o ToUpperCase(Tail(s))

\* h.toUpperCase() of each column name Chars spells
UpperCaseOf ==
    ("CON_1" :> ToUpperCase(Chars("CON_1"))) @@ ("hbo_2" :> ToUpperCase(Chars("hbo_2")))
        @@ ("QC-1" :> ToUpperCase(Chars("QC-1"))) @@ ("qc-2" :> ToUpperCase(Chars("qc-2")))
        @@ ("QC_3" :> ToUpperCase(Chars("QC_3"))) @@ ("ID" :> ToUpperCase(Chars("ID")))
        @@ ("name" :> ToUpperCase(Chars("name")))
        @@ ("Final_Annotation" :> ToUpperCase(Chars("Final_Annotation")))

\* String.prototype.startsWith
StartsWith(s, p) == Len(s) >= Len(p) /\ SubSeq(s, 1, Len(p)) = p

\* Array.prototype.includes on a header list
Includes(headers, h) == \E i \in 1..Len(headers) : headers[i] = h

\* a TableData value, or null
NullTable   == [isNull |-> TRUE,  headers |-> <<>>, rows |-> <<>>]
Table(h, r) == [isNull |-> FALSE, headers |-> h,    rows |-> r]

\* the four dereplication statuses (the strings of App.tsx:572-622)
Retained            == Str(<<"Retained">>)
Removed             == Str(<<"Removed">>)
ExcludedHighMissing == Str(<<"ExcludedHighMissing">>)
ExcludedUnstableQC  == Str(<<"ExcludedUnstableQC">>)

\* { ...row, [key]: value }
Spread(row, key, value) ==
    [k \in (DOMAIN row) \cup {key} |-> IF k = key THEN value ELSE row[k]]

\* delete row[key]
Delete(row, key) == [k \in (DOMAIN row) \ {key} |-> row[k]]

\* key in row
HasKey(row, key) == key \in DOMAIN row

\* row[key]
Get(row, key) == IF key \in DOMAIN row THEN row[key] ELSE Undefined

RECURSIVE SumSeq(_)
SumSeq(s) == IF s = <<>> THEN 0 ELSE Head(s) + SumSeq(Tail(s))

RECURSIVE Flatten(_)
Flatten(ss) == IF ss = <<>> THEN <<>> ELSE Head(ss) \o Flatten(Tail(ss))

(***************************************************************************)
(* handleDereplication, App.tsx:535-656                                    *)
(***************************************************************************)
\* headers.filter(h => h.toUpperCase().startsWith('CON_') || ...'HBO_')
IsBioCol(h) ==
    \/ StartsWith(UpperCaseOf[h], <<"C", "O", "N", "_">>)
    \/ StartsWith(UpperCaseOf[h], <<"H", "B", "O", "_">>)

\* headers.filter(h => h.toUpperCase().startsWith('QC-'))
IsQcCol(h) == StartsWith(UpperCaseOf[h], <<"Q", "C", "-">>)

BioCols(headers) == SelectSeq(headers, IsBioCol)
QcCols(headers)  == SelectSeq(headers, IsQcCol)

\* the first configuration check that fails, "" when the table passes
ConfigError(headers) ==
    IF Len(BioCols(headers)) = 0 THEN "noBioColumns"
    ELSE IF Len(QcCols(headers)) = 0 THEN "noQcColumns"
    ELSE IF ~Includes(headers, ID_COL) THEN "noIdColumn"
    ELSE ""

\* the group key of a row: its trimmed annotation, when truthy and not blank
HasGroupKey(row) ==
    LET annotation == Get(row, ANNOTATION_COL)
    IN  Truthy(annotation) /\ Trim(ToStr(annotation)) # <<>>

GroupKey(row) == Trim(ToStr(Get(row, ANNOTATION_COL)))

\* the keys of the groups Map, in insertion order
RECURSIVE GroupKeysFrom(_, _, _)
GroupKeysFrom(rows, i, seen) ==
    IF i > Len(rows) THEN seen
    ELSE IF HasGroupKey(rows[i]) /\ ~Includes(seen, GroupKey(rows[i]))
         THEN GroupKeysFrom(rows, i + 1, Append(seen, GroupKey(rows[i])))
         ELSE GroupKeysFrom(rows, i + 1, seen)

GroupKeys(rows) == GroupKeysFrom(rows, 1, <<>>)

\* the indices 1..n as a sequence, and those that satisfy a test
Indices(n) == [i \in 1..n |-> i]

\* groups.get(key): the positions of its rows, in row order
GroupRows(rows, key) ==
    LET InGroup(i) == HasGroupKey(rows[i]) /\ GroupKey(rows[i]) = key
    IN  SelectSeq(Indices(Len(rows)), InGroup)

\* unknowns: the positions of the rows without a group key
Unknowns(rows) ==
    LET NoKey(i) == ~HasGroupKey(rows[i])
    IN  SelectSeq(Indices(Len(rows)), NoKey)

\* cols.map(col => Number(row[col])).filter(v => !isNaN(v) && v > 0)
PositiveValues(row, cols) ==
    LET nums == [i \in 1..Len(cols) |-> ToNumber(Get(row, cols[i]))]
        Positive(x) == ~x.nan /\ x.v > 0
        kept == SelectSeq(nums, Positive)
    IN  [i \in 1..Len(kept) |-> kept[i].v]

\* missingRate as the fraction num/den of App.tsx:579-580 (den = bioCols.length)
MissingRate(row, bioCols) ==
    LET missingCount == Len(bioCols) - Len(PositiveValues(row, bioCols))
    IN  [num |-> missingCount * 100, den |-> Len(bioCols)]

\* Math.sqrt, truncated: the largest r with r * r <= n, by Newton's iteration
\* downwards from a start that is not below it
RECURSIVE SqrtFrom(_, _)
SqrtFrom(n, r) ==
    LET next == (r + n \div r) \div 2
    IN  IF next >= r THEN r ELSE SqrtFrom(n, next)

Sqrt(n) == IF n = 0 THEN 0 ELSE SqrtFrom(n, 46340)

\* (variant for C7: the population variance, divisor n)
VarianceDivisorPopulation(n) == n

\* the divisor of the variance: Bessel's n - 1
VarianceDivisor(n) == n - 1

\* rsd of App.tsx:588-591 in hundredths of a percent, truncated.  With
\* S the sum and n the number of the values, mean = S / n and the squared
\* deviations sum to D / n^2 for D = sum of (n x - S)^2, so that
\* stdDev = sqrt(D / divisor) / n and rsd = 100 * sqrt(D / divisor) / S.
RsdOf(qcValues) ==
    LET n == Len(qcValues)
        S == SumSeq(qcValues)
        D == SumSeq([i \in 1..n |-> (n * qcValues[i] - S) * (n * qcValues[i] - S)])
    IN  (10 * Sqrt((1000000 * D) \div VarianceDivisor(n))) \div S

\* (variant for C6: the fraction missingCount / bioCols.length, not yet a
\* percentage, compared with 50)
HighMissingAsFraction(row, bioCols) ==
    LET m == MissingRate(row, bioCols) IN m.num > 50 * 100 * m.den

\* missingRate > 50 (App.tsx:582)
HighMissing(row, bioCols) ==
    LET m == MissingRate(row, bioCols) IN m.num > 50 * m.den

\* rsd > 30 (App.tsx:593), rsd in hundredths of a percent
UnstableQc(rsd) == rsd > 3000

\* the outcome of stages 1.1 and 1.2 for one row of a group (the callback of
\* App.tsx:577-595): the status it is excluded with, or "" and its _qc_rsd
Stage1(row, bioCols, qcCols) ==
    LET qcValues == PositiveValues(row, qcCols)
        rsd      == RsdOf(qcValues)
    IN  IF HighMissing(row, bioCols)
            THEN [status |-> "ExcludedHighMissing", rsd |-> 0]
        ELSE IF Len(qcValues) < 2
            THEN [status |-> "", rsd |-> 0]
        ELSE IF SumSeq(qcValues) = 0
            THEN [status |-> "ExcludedUnstableQC", rsd |-> 0]
        ELSE IF UnstableQc(rsd)
            THEN [status |-> "ExcludedUnstableQC", rsd |-> rsd]
        ELSE [status |-> "", rsd |-> rsd]

\* candidates: the positions of the group's rows that stage 1 did not exclude
\* (a row that already carries a _derep_status key is filtered out too)
Candidates(rows, group, bioCols, qcCols) ==
    LET Passes(i) == /\ Stage1(rows[i], bioCols, qcCols).status = ""
                     /\ ~HasKey(rows[i], STATUS_KEY)
    IN  SelectSeq(group, Passes)

\* _avg_intensity as the fraction num/den of App.tsx:605-606
AvgIntensity(row, bioCols) ==
    LET bioValues == PositiveValues(row, bioCols)
    IN  IF Len(bioValues) > 0
        THEN [num |-> SumSeq(bioValues), den |-> Len(bioValues)]
        ELSE [num |-> 0, den |-> 1]

\* a > b on fractions with positive denominators
Greater(a, b) == a.num * b.den > b.num * a.den

\* Math.min over a non-empty sequence of numbers
RECURSIVE MinOf(_)
MinOf(s) ==
    IF Len(s) = 1 THEN s[1]
    ELSE LET m == MinOf(Tail(s)) IN IF Head(s) < m THEN Head(s) ELSE m

\* the width of the RSD window, App.tsx:610, in hundredths of a percent
RsdWindow == 200

\* (variant for C22: no RSD window, every candidate is a final candidate)
FinalCandidatesWithoutWindow(rows, candidates, bioCols, qcCols) == candidates

\* finalCandidates: the candidates with _qc_rsd < min_rsd + 2
FinalCandidates(rows, candidates, bioCols, qcCols) ==
    LET rsd(i)  == Stage1(rows[i], bioCols, qcCols).rsd
        min_rsd == MinOf([k \in 1..Len(candidates) |-> rsd(candidates[k])])
        InWindow(i) == rsd(i) < min_rsd + RsdWindow
    IN  SelectSeq(candidates, InWindow)

\* (variant for C8: >= in place of >, so that a later row takes a tie)
BeatsOrTies(row, max, bioCols) ==
    ~Greater(AvgIntensity(max, bioCols), AvgIntensity(row, bioCols))

\* whether row beats the running maximum in the reduce of App.tsx:613
Beats(row, max, bioCols) == Greater(AvgIntensity(row, bioCols), AvgIntensity(max, bioCols))

\* finalCandidates.reduce((max, row) => row > max ? row : max, finalCandidates[0])
RECURSIVE ReduceMax(_, _, _, _)
ReduceMax(rows, rest, max, bioCols) ==
    IF rest = <<>> THEN max
    ELSE IF Beats(rows[Head(rest)], rows[max], bioCols)
         THEN ReduceMax(rows, Tail(rest), Head(rest), bioCols)
         ELSE ReduceMax(rows, Tail(rest), max, bioCols)

\* the winner among finalCandidates: the reduce of App.tsx:612-614, and 0
\* for null when there is none
ReducedMax(rows, finalCandidates, bioCols) ==
    IF Len(finalCandidates) > 0
    THEN ReduceMax(rows, finalCandidates, finalCandidates[1], bioCols)
    ELSE 0

\* the winner among the candidates of a group (App.tsx:600-615)
WinnerOf(rows, candidates, bioCols, qcCols) ==
    IF Len(candidates) = 1 THEN candidates[1]
    ELSE IF Len(candidates) > 1
    THEN ReducedMax(rows, FinalCandidates(rows, candidates, bioCols, qcCols), bioCols)
    ELSE 0

\* the position of the group's winner, 0 for null (App.tsx:597-615)
Winner(rows, group, bioCols, qcCols) ==
    WinnerOf(rows, Candidates(rows, group, bioCols, qcCols), bioCols, qcCols)

\* whether the marking loop takes row for the winner: winner && row.ID === winner.ID
IsWinnerRow(rows, i, winner) ==
    winner # 0 /\ Get(rows[i], ID_COL) = Get(rows[winner], ID_COL)

\* (variant for C3: the identifier test left out of the marking loop)
MarkStatusWithoutIdTest(rows, i, winner) ==
    IF winner # 0 THEN Retained ELSE Removed

\* the status the marking loop of App.tsx:618-624 gives a row of a group
MarkStatus(rows, i, winner) ==
    IF IsWinnerRow(rows, i, winner) THEN Retained ELSE Removed

\* (variant for C5: a group of one row is put through the stages as well)
ProcessGroupWithoutShortcut(rows, group, bioCols, qcCols) ==
    LET winner == Winner(rows, group, bioCols, qcCols)
    IN  [k \in 1..Len(group) |->
            Spread(rows[group[k]], STATUS_KEY, MarkStatus(rows, group[k], winner))]

\* the rows one group pushes onto processedRows (App.tsx:570-625)
ProcessGroup(rows, group, bioCols, qcCols) ==
    IF Len(group) <= 1
    THEN <<Spread(rows[group[1]], STATUS_KEY, Retained)>>
    ELSE LET winner == Winner(rows, group, bioCols, qcCols)
         IN  [k \in 1..Len(group) |->
                Spread(rows[group[k]], STATUS_KEY, MarkStatus(rows, group[k], winner))]

ProcessedRows(rows, bioCols, qcCols) ==
    LET keys == GroupKeys(rows)
    IN  Flatten([g \in 1..Len(keys) |->
                    ProcessGroup(rows, GroupRows(rows, keys[g]), bioCols, qcCols)])

\* the rows of the unknown compounds, each marked Retained (App.tsx:627)
UnknownRows(rows, unknowns) ==
    [k \in 1..Len(unknowns) |-> Spread(rows[unknowns[k]], STATUS_KEY, Retained)]

\* the temporary keys deleted from every row (App.tsx:628-631)
WithoutTemporaryKeys(all) ==
    [k \in 1..Len(all) |-> Delete(Delete(all[k], QC_RSD_KEY), AVG_KEY)]

\* finalRows before the sort (App.tsx:627-631)
UnsortedFinalRows(rows, bioCols, qcCols) ==
    WithoutTemporaryKeys(ProcessedRows(rows, bioCols, qcCols)
                         \o UnknownRows(rows, Unknowns(rows)))

\* rowOrderMap.get(id) ?? Infinity: the Map built from [row.ID, index] pairs
\* keeps the last index of an ID; Infinity is past every index
OrderOf(rows, id) ==
    LET hits == {i \in 1..Len(rows) : Get(rows[i], ID_COL) = id}
    IN  IF hits = {} THEN Len(rows) + 1
        ELSE CHOOSE i \in hits : \A j \in hits : j <= i

SortKey(rows, row) == OrderOf(rows, Get(row, ID_COL))

\* Array.prototype.sort with the comparator of App.tsx:635: a stable sort by
\* SortKey, as an insertion of each element after the elements that are not
\* greater
RECURSIVE InsertSorted(_, _, _)
InsertSorted(rows, sorted, row) ==
    IF sorted = <<>> THEN <<row>>
    ELSE IF SortKey(rows, Head(sorted)) <= SortKey(rows, row)
         THEN <<Head(sorted)>> \o InsertSorted(rows, Tail(sorted), row)
         ELSE <<row>> \o sorted

RECURSIVE SortRows(_, _, _)
SortRows(rows, sorted, rest) ==
    IF rest = <<>> THEN sorted
    ELSE SortRows(rows, InsertSorted(rows, sorted, Head(rest)), Tail(rest))

\* the rows handleDereplication stores (App.tsx:627-637)
FinalRows(rows, headers) ==
    SortRows(rows, <<>>, UnsortedFinalRows(rows, BioCols(headers), QcCols(headers)))

(***************************************************************************)
(* The contaminant filter, App.tsx:416-514                                 *)
(***************************************************************************)
\* a Set<string>, or null
NullList    == [isNull |-> TRUE,  names |-> {}]
NameList(S) == [isNull |-> FALSE, names |-> S]

\* (variant for C11: the annotation compared without trimming it)
KeepsRowUntrimmed(row, names) ==
    LET annotationValue == Get(row, ANNOTATION_COL)
    IN  IF annotationValue = Null \/ annotationValue = Undefined THEN TRUE
        ELSE IF Trim(ToStr(annotationValue)) = <<>> THEN TRUE
        ELSE ToStr(annotationValue) \notin names

\* the callback of filterToolData.rows.filter (App.tsx:460-470)
KeepsRow(row, names) ==
    LET annotationValue == Get(row, ANNOTATION_COL)
    IN  IF annotationValue = Null \/ annotationValue = Undefined THEN TRUE
        ELSE IF Trim(ToStr(annotationValue)) = <<>> THEN TRUE
        ELSE Trim(ToStr(annotationValue)) \notin names

\* (variant for C10: the rows removed in place while a cursor walks them, so
\* that the row after a removed row is never examined)
RECURSIVE FilterRowsInPlace(_, _)
FilterRowsInPlace(rows, names) ==
    IF rows = <<>> THEN <<>>
    ELSE IF KeepsRow(Head(rows), names)
         THEN <<Head(rows)>> \o FilterRowsInPlace(Tail(rows), names)
         ELSE IF Len(rows) = 1 THEN <<>>
              ELSE <<rows[2]>> \o FilterRowsInPlace(SubSeq(rows, 3, Len(rows)), names)

\* filterToolData.rows.filter(...)
FilterRows(rows, names) ==
    LET Keep(row) == KeepsRow(row, names)
    IN  SelectSeq(rows, Keep)

\* new Set(data.rows.map(row => String(row['name']).trim()).filter(name => name))
NamesOfFile(rows) ==
    {Trim(ToStr(Get(rows[i], NAME_COL))) : i \in 1..Len(rows)} \ {<<>>}

\* new Set(contaminantText.split('\n').map(name => name.trim()).filter(name => name))
NamesOfText(lines) ==
    {Trim(lines[i]) : i \in 1..Len(lines)} \ {<<>>}

\* contaminantText.trim() is not empty
TextNotBlank(lines) == \E i \in 1..Len(lines) : Trim(lines[i]) # <<>>

\* the Retained rows with their status left on them
RetainedRowsWithStatus(rows) ==
    LET IsRetained(row) == Get(row, STATUS_KEY) = Retained
    IN  SelectSeq(rows, IsRetained)

\* the rows handleLoadDataForFiltering and the downloads keep (App.tsx:500-506)
RetainedRows(rows) ==
    LET IsRetained(row) == Get(row, STATUS_KEY) = Retained
        kept == SelectSeq(rows, IsRetained)
    IN  [k \in 1..Len(kept) |-> Delete(kept[k], STATUS_KEY)]

(***************************************************************************)
(* Strings and numbers of the processing workflow.  A number with a        *)
(* fraction is a pair num/den with den a power of ten; in a table it is    *)
(* carried as its decimal text, which String() and Number() map to the     *)
(* same value as the number itself.  Exponents, hexadecimal text and       *)
(* Infinity are not written in any file of the model.                      *)
(***************************************************************************)
\* String.prototype.toLowerCase
ToLowerChar(c) ==
    IF \E k \in 1..26 : UpperCase[k] = c
    THEN LowerCase[CHOOSE k \in 1..26 : UpperCase[k] = c]
    ELSE c

RECURSIVE ToLowerCase(_)
ToLowerCase(s) ==
    IF s = <<>> THEN <<>> ELSE <<ToLowerChar(Head(s))>> \o ToLowerCase(Tail(s))

\* the longest prefix of s made of digits
RECURSIVE DigitPrefix(_)
DigitPrefix(s) ==
    IF s # <<>> /\ IsDigit(Head(s)) THEN <<Head(s)>> \o DigitPrefix(Tail(s)) ELSE <<>>

\* s without its first n characters
Drop(s, n) == SubSeq(s, n + 1, Len(s))

RECURSIVE Pow10(_)
Pow10(n) == IF n = 0 THEN 1 ELSE 10 * Pow10(n - 1)

\* a number with a fraction, or NaN
NaNFraction         == [nan |-> TRUE,  num |-> 0, den |-> 1]
Fraction(num, den)  == [nan |-> FALSE, num |-> num, den |-> den]

\* the number a decimal literal at the start of s denotes and the number of
\* characters it takes: an optional sign, digits, an optional point and
\* digits; NaN when there is no digit
DecimalPrefix(s) ==
    LET signed   == s # <<>> /\ Head(s) \in {"-", "+"}
        negative == s # <<>> /\ Head(s) = "-"
        u        == IF signed THEN Tail(s) ELSE s
        int      == DigitPrefix(u)
        r        == Drop(u, Len(int))
        pointed  == r # <<>> /\ Head(r) = "."
        frac     == IF pointed THEN DigitPrefix(Tail(r)) ELSE <<>>
        mag      == DigitsValue(int \o frac)
        taken    == (IF signed THEN 1 ELSE 0) + Len(int)
                        + (IF pointed /\ (int # <<>> \/ frac # <<>>) THEN 1 + Len(frac) ELSE 0)
    IN  IF int = <<>> /\ frac = <<>>
        THEN [value |-> NaNFraction, taken |-> 0]
        ELSE [value |-> Fraction(IF negative THEN 0 - mag ELSE mag, Pow10(Len(frac))),
              taken |-> taken]

\* parseFloat(s): the decimal literal after leading blanks, whatever follows
ParseFloat(s) == DecimalPrefix(TrimStart(s)).value

\* parseInt(s): the signed digits after leading blanks, whatever follows
ParseInt(s) ==
    LET t        == TrimStart(s)
        signed   == t # <<>> /\ Head(t) \in {"-", "+"}
        negative == t # <<>> /\ Head(t) = "-"
        int      == DigitPrefix(IF signed THEN Tail(t) ELSE t)
    IN  IF int = <<>> THEN NaN
        ELSE Val(IF negative THEN 0 - DigitsValue(int) ELSE DigitsValue(int))

\* Number(v) of a cell with its fraction: null is 0, undefined is NaN, a blank
\* string is 0, a string that is one decimal literal between blanks is its
\* value, any other string is NaN
NumberOf(c) ==
    CASE TypeOf(c) = "null"      -> Fraction(0, 1)
      [] TypeOf(c) = "undefined" -> NaNFraction
      [] TypeOf(c) = "number"    -> Fraction(c[2], 1)
      [] OTHER                   ->
            LET w == Trim(c[2])
                d == DecimalPrefix(w)
            IN  IF w = <<>> THEN Fraction(0, 1)
                ELSE IF d.taken = Len(w) THEN d.value
                ELSE NaNFraction

\* the digits of n padded with zeros to three places
ThreeDigits(n) == <<Digits[(n \div 100) + 1], Digits[((n \div 10) % 10) + 1], Digits[(n % 10) + 1]>>

\* Number.prototype.toFixed(3) of a number that is not NaN: the magnitude
\* rounded to thousandths, the larger neighbour at a tie, behind the sign
ToFixed3(q) ==
    LET mag    == IF q.num < 0 THEN 0 - q.num ELSE q.num
        places == CHOOSE f \in 0..9 : Pow10(f) = q.den
        scale  == IF places > 3 THEN Pow10(places - 3) ELSE 1
        n      == IF places <= 3 THEN mag * Pow10(3 - places)
                  ELSE (mag \div scale) + (IF 2 * (mag % scale) >= scale THEN 1 ELSE 0)
    IN  (IF q.num < 0 THEN <<"-">> ELSE <<>>)
            \o NatToChars(n \div 1000) \o <<".">> \o ThreeDigits(n % 1000)

\* the first position from i on where sep occurs in s, or 0
RECURSIVE IndexOf(_, _, _)
IndexOf(s, sep, i) ==
    IF i > Len(s) THEN 0 ELSE IF s[i] = sep THEN i ELSE IndexOf(s, sep, i + 1)

\* String.prototype.split on a one-character separator
RECURSIVE Split(_, _)
Split(s, sep) ==
    LET i == IndexOf(s, sep, 1)
    IN  IF i = 0 THEN <<s>>
        ELSE <<SubSeq(s, 1, i - 1)>> \o Split(Drop(s, i), sep)

\* s.replace(/p/i, ''): s without the first occurrence of p in any case
RECURSIVE ReplaceFirstIgnoreCase(_, _)
ReplaceFirstIgnoreCase(s, p) ==
    IF Len(s) < Len(p) THEN s
    ELSE IF ToLowerCase(SubSeq(s, 1, Len(p))) = p THEN Drop(s, Len(p))
    ELSE <<Head(s)>> \o ReplaceFirstIgnoreCase(Tail(s), p)

(***************************************************************************)
(* The processing workflow, App.tsx:13-67 and 183-395                      *)
(***************************************************************************)
MZ_COL            == "MZ"
RT_COL            == "RT"
FILENAME_COL      == "Filename"
ION_MASS_COL      == "ionMass"
COMPOUND_NAME_COL == "Compound_Name"
NAME_ZH_COL       == "NAME (Chinese translation)"  \* the header is spelled in Chinese in App.tsx:16
ADDUCT_COL        == "Adduct"
LIBRARY_QUALITY_COL == "LibraryQualityString"
MQ_SCORE_COL      == "MQScore"
MZ_ERROR_COL      == "MZErrorPPM"
SHARED_PEAKS_COL  == "SharedPeaks"
FORMULA_COL       == "molecularFormula"
CONFIDENCE_COL    == "ConfidenceScoreExact"
SMILES_COL        == "smiles"
CONFIDENCE_APPROX_COL == "ConfidenceScoreApproximate"
INCHIKEY_COL      == "InChIkey2D"
NPC_COL           == "NPC#superclass"
CLASSYFIRE_SUPER_COL == "ClassyFire#superclass"
CLASSYFIRE_CLASS_COL == "ClassyFire#class"
INCHI_COL         == "InChI"

\* PROCESSING_STEPS (App.tsx:13-20); PROCESSING_STEPS[i] of the source is
\* PROCESSING_STEPS[i + 1] here
PROCESSING_STEPS ==
    << [fileType |-> "mzmine", requiredColumns |-> <<>>, matchColumn |-> "",
        matchColumnBase |-> "", appendColumns |-> <<>>],
       [fileType |-> "netTable", requiredColumns |-> <<ID_COL, MZ_COL>>, matchColumn |-> "",
        matchColumnBase |-> "", appendColumns |-> <<>>],
       [fileType |-> "fbmn", requiredColumns |-> <<ID_COL>>, matchColumn |-> ID_COL,
        matchColumnBase |-> "",
        appendColumns |-> <<COMPOUND_NAME_COL, NAME_ZH_COL, ADDUCT_COL, LIBRARY_QUALITY_COL,
                            MQ_SCORE_COL, MZ_ERROR_COL, SHARED_PEAKS_COL>>],
       [fileType |-> "sirius", requiredColumns |-> <<ID_COL>>, matchColumn |-> ID_COL,
        matchColumnBase |-> "",
        appendColumns |-> <<NAME_COL, FORMULA_COL, CONFIDENCE_COL, SMILES_COL,
                            CONFIDENCE_APPROX_COL, INCHIKEY_COL>>],
       [fileType |-> "supplementary", requiredColumns |-> <<ION_MASS_COL>>,
        matchColumn |-> ION_MASS_COL, matchColumnBase |-> MZ_COL,
        appendColumns |-> <<FORMULA_COL, NPC_COL, CLASSYFIRE_SUPER_COL, CLASSYFIRE_CLASS_COL,
                            INCHI_COL>>],
       [fileType |-> "annotation", requiredColumns |-> <<>>, matchColumn |-> "",
        matchColumnBase |-> "", appendColumns |-> <<ANNOTATION_COL>>] >>

\* PROCESSING_STEPS.length
StepCount == Len(PROCESSING_STEPS)

\* PROCESSING_STEPS[step]
StepConfig(step) == PROCESSING_STEPS[step + 1]

\* v != null
NotNullish(c) == TypeOf(c) \notin {"null", "undefined"}

\* v ?? null
OrNull(c) == IF NotNullish(c) THEN c ELSE Null

\* String(v || '')
StringOrEmpty(c) == IF Truthy(c) THEN ToStr(c) ELSE <<>>

\* { ...row, ...newRowData }
SpreadAll(row, newRowData) ==
    [k \in (DOMAIN row) \cup (DOMAIN newRowData) |->
        IF k \in DOMAIN newRowData THEN newRowData[k] ELSE row[k]]

\* [...new Set(s)]: the elements of s, each at its first occurrence
RECURSIVE Unique(_)
Unique(s) ==
    IF s = <<>> THEN <<>>
    ELSE LET front == Unique(SubSeq(s, 1, Len(s) - 1))
             last  == s[Len(s)]
         IN  IF \E i \in 1..Len(front) : front[i] = last THEN front ELSE Append(front, last)

\* no column of cols is found missing
NoneMissing(cols, headers) == <<>>

\* the columns of cols that headers lacks (App.tsx:214, 245, 254, 349)
Missing(cols, headers) ==
    LET Lacks(col) == ~Includes(headers, col) IN SelectSeq(cols, Lacks)

\* the row the Filename import makes of a row (App.tsx:201-211)
FilenameRow(row) ==
    LET parts == Split(StringOrEmpty(Get(row, FILENAME_COL)), "/")
    IN  IF Len(parts) >= 3
        THEN SpreadAll(row,
                (ID_COL :> Str(Trim(parts[1])))
                @@ (MZ_COL :> Str(Trim(ReplaceFirstIgnoreCase(parts[2], <<"m", "z">>))))
                @@ (RT_COL :> Str(Trim(ReplaceFirstIgnoreCase(parts[3], <<"m", "i", "n">>)))))
        ELSE SpreadAll(row, (ID_COL :> Null) @@ (MZ_COL :> Null) @@ (RT_COL :> Null))

\* headers.indexOf(h), counted from 1; 0 when absent
HeaderIndex(headers, h) ==
    IF Includes(headers, h) THEN CHOOSE i \in 1..Len(headers) :
                                    headers[i] = h /\ \A j \in 1..(i - 1) : headers[j] # h
    ELSE 0

\* finalHeaders of the Filename import (App.tsx:213-222): the missing ones of
\* ID, MZ, RT spliced in behind Filename, then passed through a Set
FilenameHeaders(headers) ==
    LET newHeaders    == Missing(<<ID_COL, MZ_COL, RT_COL>>, headers)
        filenameIndex == HeaderIndex(headers, FILENAME_COL)
        spliced       == IF filenameIndex # 0
                         THEN SubSeq(headers, 1, filenameIndex) \o newHeaders
                                  \o Drop(headers, filenameIndex)
                         ELSE newHeaders \o headers
    IN  Unique(spliced)

\* the error the base-table import ends with, "" for none (App.tsx:197-233)
ImportError(data) ==
    IF Includes(data.headers, ID_COL) /\ Includes(data.headers, MZ_COL)
            /\ Includes(data.headers, RT_COL)
    THEN ""
    ELSE IF Includes(data.headers, FILENAME_COL)
    THEN IF Missing(<<ID_COL, MZ_COL>>, FilenameHeaders(data.headers)) # <<>>
         THEN "stillMissingColumns" ELSE ""
    ELSE "noBaseColumns"

\* processedData of the base-table import (App.tsx:197-223)
Imported(data) ==
    IF Includes(data.headers, ID_COL) /\ Includes(data.headers, MZ_COL)
            /\ Includes(data.headers, RT_COL)
    THEN data
    ELSE Table(FilenameHeaders(data.headers),
               [i \in 1..Len(data.rows) |-> FilenameRow(data.rows[i])])

\* new Map(entries): the row get(key) returns is that of the first entry with
\* the key
MapOfFirst(entries) ==
    [k \in {entries[i][1] : i \in 1..Len(entries)} |->
        entries[CHOOSE i \in 1..Len(entries) :
                    entries[i][1] = k /\ \A j \in 1..(i - 1) : entries[j][1] # k][2]]

\* new Map(entries) of [key, row] pairs: a later entry replaces an earlier one
\* with the same key, so get(key) returns the row of the last entry with it
MapOf(entries) ==
    [k \in {entries[i][1] : i \in 1..Len(entries)} |->
        entries[CHOOSE i \in 1..Len(entries) :
                    entries[i][1] = k /\ \A j \in (i + 1)..Len(entries) : entries[j][1] # k][2]]

\* (variant for C28: every column of the matched row is copied, its key
\* column included)
NewRowDataWithKey(match, appendColumns) ==
    [col \in DOMAIN match |-> OrNull(match[col])]

\* newRowData (App.tsx:272-273, 301-302): every append column of the step,
\* null where the matched row has no value
NewRowData(match, appendColumns) ==
    [col \in {appendColumns[i] : i \in 1..Len(appendColumns)} |-> OrNull(Get(match, col))]

\* id != null && String(id).trim() !== '' (App.tsx:260, 266, 280)
HasExactKey(row) ==
    NotNullish(Get(row, ID_COL)) /\ Trim(ToStr(Get(row, ID_COL))) # <<>>

\* String(row.ID).trim()
ExactKey(row) == Trim(ToStr(Get(row, ID_COL)))

\* matchMap of the exact merge (App.tsx:258-262)
ExactMatchMap(rows) ==
    LET keyed == SelectSeq(rows, HasExactKey)
    IN  MapOf([i \in 1..Len(keyed) |-> <<ExactKey(keyed[i]), keyed[i]>>])

\* a row of newMergedRows of the exact merge (App.tsx:264-277)
ExactMergeRow(baseRow, matchMap, appendColumns) ==
    IF ~HasExactKey(baseRow) THEN baseRow
    ELSE IF ExactKey(baseRow) \in DOMAIN matchMap
    THEN SpreadAll(baseRow, NewRowData(matchMap[ExactKey(baseRow)], appendColumns))
    ELSE baseRow

\* baseIdSet (App.tsx:279): the trimmed String() of every ID of the base
\* table that is not the empty string, "null" of a missing ID among them
BaseIdSet(netRows) ==
    {ExactKey(netRows[i]) : i \in 1..Len(netRows)} \ {<<>>}

\* foundUnmatched of the exact merge (App.tsx:280-283)
ExactUnmatched(netRows, rows) ==
    LET uploaded == SelectSeq(rows, HasExactKey)
        uniqueUploadedIds == Unique([i \in 1..Len(uploaded) |-> ExactKey(uploaded[i])])
        baseIdSet == BaseIdSet(netRows)
        Absent(id) == id \notin baseIdSet
        found == SelectSeq(uniqueUploadedIds, Absent)
    IN  [i \in 1..Len(found) |-> Str(found[i])]

\* row.ionMass != null && !isNaN(Number(row.ionMass)) (App.tsx:286, 315)
HasMassKey(row) ==
    NotNullish(Get(row, ION_MASS_COL)) /\ ~NumberOf(Get(row, ION_MASS_COL)).nan

\* Number(v).toFixed(3)
MassKey(c) == ToFixed3(NumberOf(c))

\* matchMap of the tolerance merge (App.tsx:286)
ToleranceMatchMap(rows) ==
    LET keyed == SelectSeq(rows, HasMassKey)
    IN  MapOf([i \in 1..Len(keyed) |-> <<MassKey(Get(keyed[i], ION_MASS_COL)), keyed[i]>>])

\* the test of App.tsx:293 that leaves a base row as it is
NoBaseMass(mzToMatch) ==
    \/ ~NotNullish(mzToMatch)
    \/ Trim(ToStr(mzToMatch)) = <<>>
    \/ NumberOf(mzToMatch).nan

\* originalNetTableRow?.[baseMzKey] (App.tsx:290-291)
MzToMatch(netRows, index, baseMzKey) ==
    IF index <= Len(netRows) THEN Get(netRows[index], baseMzKey) ELSE Undefined

\* a row of newMergedRows of the tolerance merge (App.tsx:289-306)
ToleranceMergeRow(baseRow, mzToMatch, matchMap, appendColumns) ==
    IF NoBaseMass(mzToMatch) THEN baseRow
    ELSE IF MassKey(mzToMatch) \in DOMAIN matchMap
    THEN SpreadAll(baseRow, NewRowData(matchMap[MassKey(mzToMatch)], appendColumns))
    ELSE baseRow

\* baseMzSet (App.tsx:308-311)
BaseMzSet(netRows, baseMzKey) ==
    {MassKey(Get(netRows[i], baseMzKey)) :
        i \in {j \in 1..Len(netRows) : /\ NotNullish(Get(netRows[j], baseMzKey))
                                       /\ ~NumberOf(Get(netRows[j], baseMzKey)).nan}}

\* foundUnmatched of the tolerance merge (App.tsx:313-315): the ionMass cells
\* as they stand in the file
ToleranceUnmatched(netRows, rows, baseMzKey) ==
    LET baseMzSet == BaseMzSet(netRows, baseMzKey)
        Reported(row) == HasMassKey(row) /\ MassKey(Get(row, ION_MASS_COL)) \notin baseMzSet
        found == SelectSeq(rows, Reported)
    IN  [i \in 1..Len(found) |-> Get(found[i], ION_MASS_COL)]

\* newHeaders of a merge with every append column pushed
MergeHeadersPushAll(headers, appendColumns) == headers \o appendColumns

\* (variant for C27: the headers of the working table are left as they are)
MergeHeadersUnchanged(headers, appendColumns) == headers

\* newHeaders of a merge (App.tsx:251-255)
MergeHeaders(headers, appendColumns) == headers \o Missing(appendColumns, headers)

\* newMergedRows (App.tsx:250, 257-316): empty for a step that matches on
\* neither column
MergedRows(config, merged, net, data) ==
    IF config.matchColumn = ID_COL
    THEN LET matchMap == ExactMatchMap(data.rows)
         IN  [i \in 1..Len(merged.rows) |->
                ExactMergeRow(merged.rows[i], matchMap, config.appendColumns)]
    ELSE IF config.matchColumn = ION_MASS_COL /\ config.matchColumnBase # ""
    THEN LET matchMap == ToleranceMatchMap(data.rows)
         IN  [i \in 1..Len(merged.rows) |->
                ToleranceMergeRow(merged.rows[i],
                                  MzToMatch(net.rows, i, config.matchColumnBase),
                                  matchMap, config.appendColumns)]
    ELSE <<>>

\* foundUnmatched (App.tsx:252, 279-283, 308-315)
FoundUnmatched(config, net, data) ==
    IF config.matchColumn = ID_COL THEN ExactUnmatched(net.rows, data.rows)
    ELSE IF config.matchColumn = ION_MASS_COL /\ config.matchColumnBase # ""
    THEN ToleranceUnmatched(net.rows, data.rows, config.matchColumnBase)
    ELSE <<>>

\* finalMergedData (App.tsx:318)
Merged(config, merged, net, data) ==
    Table(MergeHeaders(merged.headers, config.appendColumns),
          MergedRows(config, merged, net, data))

\* `... ${missingCols.join(', ')}` (App.tsx:247) for the lists the required
\* columns of the steps can leave
MissingColumnsMessage(missingCols) ==
    CASE missingCols = <<ID_COL>>          -> "missing required columns: ID"
      [] missingCols = <<MZ_COL>>          -> "missing required columns: MZ"
      [] missingCols = <<ID_COL, MZ_COL>>  -> "missing required columns: ID, MZ"
      [] missingCols = <<ION_MASS_COL>>    -> "missing required columns: ionMass"

\* a > b on numbers with fractions
Above(a, b) == a.num * b.den > b.num * a.den

\* Math.abs
Abs(a) == [a EXCEPT !.num = IF a.num < 0 THEN 0 - a.num ELSE a.num]

\* isFbmnStrong (App.tsx:43-53)
IsFbmnStrong(row) ==
    LET mqScore     == ParseFloat(ToStr(Get(row, MQ_SCORE_COL)))
        libQuality  == StringOrEmpty(Get(row, LIBRARY_QUALITY_COL))
        sharedPeaks == ParseInt(ToStr(Get(row, SHARED_PEAKS_COL)))
        mzError     == ParseFloat(ToStr(Get(row, MZ_ERROR_COL)))
    IN  /\ ~mqScore.nan /\ ~sharedPeaks.nan /\ ~mzError.nan
        /\ Above(mqScore, Fraction(9, 10))
        /\ libQuality = <<"G", "o", "l", "d">>
        /\ sharedPeaks.v > 10
        /\ Above(Fraction(5, 1), Abs(mzError))

\* isSiriusStrong (App.tsx:47, 55)
IsSiriusStrong(row) ==
    LET confidence == ParseFloat(ToStr(Get(row, CONFIDENCE_COL)))
    IN  ~confidence.nan /\ Above(confidence, Fraction(8, 10))

\* the last four returns of determineFinalAnnotation with the first two
\* exchanged: the library name when both sources are strong
PreferFbmn(row, compoundName, siriusName) ==
    IF IsFbmnStrong(row) THEN compoundName
    ELSE IF IsSiriusStrong(row) THEN siriusName
    ELSE compoundName

\* the last four returns of determineFinalAnnotation (App.tsx:57-66)
PreferStrong(row, compoundName, siriusName) ==
    IF IsFbmnStrong(row) /\ IsSiriusStrong(row) THEN siriusName
    ELSE IF IsFbmnStrong(row) THEN compoundName
    ELSE IF IsSiriusStrong(row) THEN siriusName
    ELSE compoundName

\* determineFinalAnnotation (App.tsx:31-67), the characters of its result
determineFinalAnnotation(row) ==
    LET compoundName == Trim(StringOrEmpty(Get(row, COMPOUND_NAME_COL)))
        siriusName   == Trim(StringOrEmpty(Get(row, NAME_COL)))
    IN  IF compoundName = <<>> /\ siriusName = <<>> THEN <<>>
        ELSE IF siriusName = <<>> THEN compoundName
        ELSE IF compoundName = <<>> THEN siriusName
        ELSE IF ToLowerCase(compoundName) = ToLowerCase(siriusName) THEN compoundName
        ELSE PreferStrong(row, compoundName, siriusName)

\* requiredCols of handleGenerateAnnotation (App.tsx:348)
AnnotationColumns ==
    <<COMPOUND_NAME_COL, NAME_COL, MQ_SCORE_COL, LIBRARY_QUALITY_COL, SHARED_PEAKS_COL,
      MZ_ERROR_COL, CONFIDENCE_COL>>

\* finalData of handleGenerateAnnotation (App.tsx:357-367)
Annotated(data) ==
    Table(IF Includes(data.headers, ANNOTATION_COL) THEN data.headers
          ELSE Append(data.headers, ANNOTATION_COL),
          [i \in 1..Len(data.rows) |->
              Spread(data.rows[i], ANNOTATION_COL, Str(determineFinalAnnotation(data.rows[i])))])

\* prev.slice(0, n)
Slice(s, n) == SubSeq(s, 1, IF n < Len(s) THEN n ELSE Len(s))

\* dataToExport of exportFile (unnamed/part_000:35): the header row, then per
\* row its value under every header
DataToExport(tableData) ==
    <<tableData.headers>> \o
        [i \in 1..Len(tableData.rows) |->
            [h \in 1..Len(tableData.headers) |-> Get(tableData.rows[i], tableData.headers[h])]]

\* what exportFile was last called with and wrote (unnamed/part_000:33-39)
NoExport == [tableData |-> NullTable, dataToExport |-> <<>>, fileName |-> ""]
Export(tableData, fileName) ==
    [tableData |-> tableData, dataToExport |-> DataToExport(tableData), fileName |-> fileName]

(***************************************************************************)
(* parseFile, unnamed/part_000:5-30.  A file is the sheet it holds: its    *)
(* header row and its data rows; a sheet without data rows is rejected.    *)
(***************************************************************************)
File(h, r) == [headers |-> h, rows |-> r]

ParseRejects(file) == Len(file.rows) = 0

Parsed(file) == Table(file.headers, file.rows)

(***************************************************************************)
(* The handlers.  A synchronous handler is one action: React applies its   *)
(* state updates together when it returns.  An upload handler is two: it   *)
(* sets the loading flag and awaits parseFile, and it continues when the   *)
(* promise settles.  Each action carries the condition under which the     *)
(* page offers its control.  Toasts, the modal and scrolling are left out. *)
(***************************************************************************)
\* handleDereplicationFileProcess up to its await (App.tsx:516-520);
\* the upload control is disabled while isLoading (App.tsx:1062-1066)
StartDereplicationUpload ==
    /\ ~isLoading
    /\ "dereplication" \notin pending
    /\ pending' = pending \cup {"dereplication"}
    /\ isLoading' = TRUE
    /\ error' = ""
    /\ UNCHANGED <<derepVars, filterVars, fileVars>>
    /\ UNCHANGED <<workflowVars, closure, exported>>

\* handleDereplicationFileProcess after its await (App.tsx:520-532)
FinishDereplicationUpload ==
    /\ "dereplication" \in pending
    /\ pending' = pending \ {"dereplication"}
    /\ isLoading' = FALSE
    /\ IF ParseRejects(derepFile)
       THEN /\ error' = "emptyFile"
            /\ UNCHANGED derepVars
       ELSE IF ~Includes(derepFile.headers, ANNOTATION_COL) \/ ~Includes(derepFile.headers, ID_COL)
       THEN /\ error' = "missingColumns"
            /\ UNCHANGED derepVars
       ELSE /\ dereplicationData' = Parsed(derepFile)
            /\ isDereplicated' = FALSE
            /\ dataBeforeDereplication' = NullTable
            /\ UNCHANGED error
    /\ UNCHANGED <<filterVars, fileVars>>
    /\ UNCHANGED <<workflowVars, closure, exported>>

\* the table handleDereplication stores for a table that passes the checks
Dereplicated(data) == [data EXCEPT !.rows = FinalRows(data.rows, data.headers)]

\* (variant for C21: the snapshot shares its rows with the table and the
\* statuses are written into those rows in place)
DereplicationInPlace ==
    /\ ~isDereplicated
    /\ ~isLoading
    /\ ~dereplicationData.isNull
    /\ IF ConfigError(dereplicationData.headers) # ""
       THEN /\ error' = ConfigError(dereplicationData.headers)
            /\ dataBeforeDereplication' = dereplicationData
            /\ UNCHANGED <<dereplicationData, isDereplicated>>
       ELSE /\ dereplicationData' = Dereplicated(dereplicationData)
            /\ dataBeforeDereplication' = Dereplicated(dereplicationData)
            /\ isDereplicated' = TRUE
            /\ error' = ""
    /\ isLoading' = FALSE
    /\ UNCHANGED <<pending, filterVars, fileVars>>
    /\ UNCHANGED <<workflowVars, closure, exported>>

\* handleDereplication (App.tsx:535-656); the button is shown while
\* !isDereplicated and enabled with data and !isLoading (App.tsx:1077-1081)
Dereplication ==
    /\ ~isDereplicated
    /\ ~isLoading
    /\ ~dereplicationData.isNull
    /\ dataBeforeDereplication' = dereplicationData   \* App.tsx:544, before the checks
    /\ IF ConfigError(dereplicationData.headers) # ""
       THEN /\ error' = ConfigError(dereplicationData.headers)
            /\ UNCHANGED <<dereplicationData, isDereplicated>>
       ELSE /\ dereplicationData' = Dereplicated(dereplicationData)
            /\ isDereplicated' = TRUE
            /\ error' = ""
    /\ isLoading' = FALSE
    /\ UNCHANGED <<pending, filterVars, fileVars>>
    /\ UNCHANGED <<workflowVars, closure, exported>>

\* (variant for C26: the undo drops the snapshot and leaves the flag set)
UndoDereplicationKeepingFlag ==
    /\ isDereplicated
    /\ ~isLoading
    /\ IF ~dataBeforeDereplication.isNull
       THEN /\ dereplicationData' = dataBeforeDereplication
            /\ dataBeforeDereplication' = NullTable
            /\ UNCHANGED isDereplicated
       ELSE UNCHANGED derepVars
    /\ UNCHANGED <<filterVars, globalVars, fileVars>>
    /\ UNCHANGED <<workflowVars, closure, exported>>

\* handleUndoDereplication (App.tsx:658-665); shown while isDereplicated,
\* disabled while isLoading (App.tsx:1087-1089)
UndoDereplication ==
    /\ isDereplicated
    /\ ~isLoading
    /\ IF ~dataBeforeDereplication.isNull
       THEN /\ dereplicationData' = dataBeforeDereplication
            /\ isDereplicated' = FALSE
            /\ dataBeforeDereplication' = NullTable
       ELSE UNCHANGED derepVars
    /\ UNCHANGED <<filterVars, globalVars, fileVars>>
    /\ UNCHANGED <<workflowVars, closure, exported>>

\* the table handleLoadDataForFiltering hands to the filter tool
CleanedData(data) == Table(data.headers, RetainedRows(data.rows))

\* handleLoadDataForFiltering (App.tsx:498-514); shown while isDereplicated
\* (App.tsx:1107-1111)
LoadDataForFiltering ==
    /\ isDereplicated
    /\ IF ~dereplicationData.isNull
       THEN /\ filterToolData' = CleanedData(dereplicationData)
            /\ isFiltered' = FALSE
            /\ dataBeforeFilter' = NullTable
       ELSE UNCHANGED <<filterToolData, isFiltered, dataBeforeFilter>>
    /\ UNCHANGED <<contaminantList, contaminantText, derepVars, globalVars, fileVars>>
    /\ UNCHANGED <<workflowVars, closure, exported>>

\* handleFilterFileProcess up to its await (App.tsx:397-401)
StartFilterUpload ==
    /\ ~isLoading
    /\ "filter" \notin pending
    /\ pending' = pending \cup {"filter"}
    /\ isLoading' = TRUE
    /\ error' = ""
    /\ UNCHANGED <<derepVars, filterVars, fileVars>>
    /\ UNCHANGED <<workflowVars, closure, exported>>

\* handleFilterFileProcess after its await (App.tsx:401-413)
FinishFilterUpload ==
    /\ "filter" \in pending
    /\ pending' = pending \ {"filter"}
    /\ isLoading' = FALSE
    /\ IF ParseRejects(filterFile)
       THEN /\ error' = "emptyFile"
            /\ UNCHANGED filterVars
       ELSE IF ~Includes(filterFile.headers, ANNOTATION_COL)
       THEN /\ error' = "missingColumns"
            /\ UNCHANGED filterVars
       ELSE /\ filterToolData' = Parsed(filterFile)
            /\ isFiltered' = FALSE
            /\ dataBeforeFilter' = NullTable
            /\ UNCHANGED <<contaminantList, contaminantText, error>>
    /\ UNCHANGED <<derepVars, fileVars>>
    /\ UNCHANGED <<workflowVars, closure, exported>>

\* handleContaminantFileProcess up to its await (App.tsx:416-420)
StartListUpload ==
    /\ ~isLoading
    /\ "list" \notin pending
    /\ pending' = pending \cup {"list"}
    /\ isLoading' = TRUE
    /\ error' = ""
    /\ UNCHANGED <<derepVars, filterVars, fileVars>>
    /\ UNCHANGED <<workflowVars, closure, exported>>

\* (variant for C29: the flag is cleared at the end of the try block and not
\* in a finally block, so that an error leaves it set)
FinishListUploadWithoutFinally ==
    /\ "list" \in pending
    /\ pending' = pending \ {"list"}
    /\ IF ParseRejects(listFile)
       THEN /\ error' = "emptyFile"
            /\ UNCHANGED <<filterVars, isLoading>>
       ELSE IF ~Includes(listFile.headers, NAME_COL)
       THEN /\ error' = "missingColumns"
            /\ UNCHANGED <<filterVars, isLoading>>
       ELSE /\ contaminantList' = NameList(NamesOfFile(listFile.rows))
            /\ contaminantText' = <<>>
            /\ isLoading' = FALSE
            /\ UNCHANGED <<filterToolData, dataBeforeFilter, isFiltered, error>>
    /\ UNCHANGED <<derepVars, fileVars>>
    /\ UNCHANGED <<workflowVars, closure, exported>>

\* handleContaminantFileProcess after its await (App.tsx:420-432)
FinishListUpload ==
    /\ "list" \in pending
    /\ pending' = pending \ {"list"}
    /\ isLoading' = FALSE
    /\ IF ParseRejects(listFile)
       THEN /\ error' = "emptyFile"
            /\ UNCHANGED filterVars
       ELSE IF ~Includes(listFile.headers, NAME_COL)
       THEN /\ error' = "missingColumns"
            /\ UNCHANGED filterVars
       ELSE /\ contaminantList' = NameList(NamesOfFile(listFile.rows))
            /\ contaminantText' = <<>>
            /\ UNCHANGED <<filterToolData, dataBeforeFilter, isFiltered, error>>
    /\ UNCHANGED <<derepVars, fileVars>>
    /\ UNCHANGED <<workflowVars, closure, exported>>

\* the textarea's onChange (App.tsx:1162-1168), disabled while isLoading;
\* the text is one the user holds
TypeText(text) ==
    /\ ~isLoading
    /\ contaminantText # text
    /\ contaminantText' = text
    /\ UNCHANGED <<filterToolData, dataBeforeFilter, contaminantList, isFiltered,
                   derepVars, globalVars, fileVars>>
    /\ UNCHANGED <<workflowVars, closure, exported>>

\* handleProcessPastedList (App.tsx:435-443); the button is disabled while
\* isLoading or the text is blank (App.tsx:1170-1172)
ProcessPastedList ==
    /\ ~isLoading
    /\ TextNotBlank(contaminantText)
    /\ contaminantList' = NameList(NamesOfText(contaminantText))
    /\ UNCHANGED <<filterToolData, dataBeforeFilter, contaminantText, isFiltered,
                   derepVars, globalVars, fileVars>>
    /\ UNCHANGED <<workflowVars, closure, exported>>

\* the table handleApplyFilter stores (App.tsx:460-473)
Filtered(data, names) == [data EXCEPT !.rows = FilterRows(data.rows, names)]

\* handleApplyFilter (App.tsx:445-481); the button is shown while !isFiltered
\* and enabled with data, a list and !isLoading (App.tsx:1189-1192)
ApplyFilter ==
    /\ ~isFiltered
    /\ ~isLoading
    /\ ~filterToolData.isNull
    /\ ~contaminantList.isNull
    /\ IF contaminantList.names = {}
       THEN /\ error' = "noFilterList"
            /\ UNCHANGED <<filterVars, isLoading>>
       ELSE /\ dataBeforeFilter' = filterToolData
            /\ filterToolData' = Filtered(filterToolData, contaminantList.names)
            /\ isFiltered' = TRUE
            /\ error' = ""
            /\ isLoading' = FALSE
            /\ UNCHANGED <<contaminantList, contaminantText>>
    /\ UNCHANGED <<pending, derepVars, fileVars>>
    /\ UNCHANGED <<workflowVars, closure, exported>>

\* handleUndoFilter (App.tsx:483-490); shown while isFiltered, disabled while
\* isLoading (App.tsx:1199-1201)
UndoFilter ==
    /\ isFiltered
    /\ ~isLoading
    /\ IF ~dataBeforeFilter.isNull
       THEN /\ filterToolData' = dataBeforeFilter
            /\ isFiltered' = FALSE
            /\ dataBeforeFilter' = NullTable
       ELSE UNCHANGED <<filterToolData, isFiltered, dataBeforeFilter>>
    /\ UNCHANGED <<contaminantList, contaminantText, derepVars, globalVars, fileVars>>
    /\ UNCHANGED <<workflowVars, closure, exported>>

\* the values a call of handleFileProcess closes over (App.tsx:338), kept
\* while its parseFile promise has not settled
NoClosure == [currentStep |-> 0, mergedData |-> NullTable, netTable |-> NullTable]

\* handleFileProcess up to its await (App.tsx:183-191); the upload control of
\* a step is offered while the step is the current one and !isLoading
\* (App.tsx:959, 974-1009): steps 0, 2, 3 and 4
StartFileProcess ==
    /\ ~isLoading
    /\ "workflow" \notin pending
    /\ currentStep \in DOMAIN workflowFiles
    /\ pending' = pending \cup {"workflow"}
    /\ closure' = [currentStep |-> currentStep, mergedData |-> mergedData,
                   netTable |-> netTable]
    /\ isLoading' = TRUE
    /\ error' = ""
    /\ UNCHANGED <<workflowVars, derepVars, filterVars, fileVars, exported>>

\* the merge branch of handleFileProcess after its await (App.tsx:240-332),
\* with the values the call closed over
FinishMerge(data) ==
    LET config == StepConfig(closure.currentStep)
        missingCols == Missing(config.requiredColumns, data.headers)
        finalMergedData == Merged(config, closure.mergedData, closure.netTable, data)
        foundUnmatched == FoundUnmatched(config, closure.netTable, data)
    IN  IF closure.mergedData.isNull \/ closure.netTable.isNull
        THEN /\ error' = "baseDataLost"
             /\ UNCHANGED workflowVars
        ELSE IF missingCols # <<>>
        THEN /\ error' = MissingColumnsMessage(missingCols)
             /\ UNCHANGED workflowVars
        ELSE /\ mergedData' = finalMergedData
             /\ dataHistory' = Append(Slice(dataHistory, closure.currentStep), finalMergedData)
             /\ allUnmatched' = IF foundUnmatched # <<>>
                                THEN (closure.currentStep :> foundUnmatched) @@ allUnmatched
                                ELSE allUnmatched
             /\ currentStep' = IF closure.currentStep < StepCount - 1
                               THEN closure.currentStep + 1 ELSE currentStep
             /\ UNCHANGED <<netTable, error>>

\* the import branch of handleFileProcess after its await (App.tsx:193-238)
FinishImport(data) ==
    IF ImportError(data) # ""
    THEN /\ error' = ImportError(data)
         /\ UNCHANGED workflowVars
    ELSE /\ netTable' = Imported(data)
         /\ mergedData' = Imported(data)
         /\ dataHistory' = <<Imported(data)>>
         /\ currentStep' = 1
         /\ UNCHANGED <<allUnmatched, error>>

\* handleFileProcess after its await (App.tsx:191-337)
FinishFileProcess ==
    /\ "workflow" \in pending
    /\ pending' = pending \ {"workflow"}
    /\ closure' = NoClosure
    /\ isLoading' = FALSE
    /\ IF ParseRejects(workflowFiles[closure.currentStep])
       THEN /\ error' = "emptyFile"
            /\ UNCHANGED workflowVars
       ELSE IF closure.currentStep = 0
       THEN FinishImport(Parsed(workflowFiles[closure.currentStep]))
       ELSE FinishMerge(Parsed(workflowFiles[closure.currentStep]))
    /\ UNCHANGED <<derepVars, filterVars, fileVars, exported>>

\* (variant for C24: the confirmation advances the step and leaves the
\* history as it is)
ConfirmNetTableWithoutHistory ==
    /\ ~isLoading
    /\ currentStep = 1
    /\ currentStep' = 2
    /\ UNCHANGED <<netTable, mergedData, dataHistory, allUnmatched, derepVars, filterVars,
                   globalVars, closure, fileVars, exported>>

\* the button that confirms the base table at step 1 (App.tsx:985-1001)
ConfirmNetTable ==
    /\ ~isLoading
    /\ currentStep = 1
    /\ dataHistory' = Append(dataHistory, mergedData)
    /\ currentStep' = 2
    /\ UNCHANGED <<netTable, mergedData, allUnmatched, derepVars, filterVars, globalVars,
                   closure, fileVars, exported>>

\* handleGenerateAnnotation (App.tsx:340-377); the button is enabled while
\* the annotation step is the current one (App.tsx:974-983)
GenerateAnnotation ==
    /\ ~isLoading
    /\ currentStep < StepCount
    /\ StepConfig(currentStep).fileType = "annotation"
    /\ IF mergedData.isNull
       THEN /\ error' = "noAnnotationData"
            /\ UNCHANGED <<isLoading, workflowVars>>
       ELSE IF Missing(AnnotationColumns, mergedData.headers) # <<>>
       THEN /\ error' = "missingAnnotationColumns"
            /\ isLoading' = FALSE
            /\ UNCHANGED workflowVars
       ELSE /\ error' = ""
            /\ isLoading' = FALSE
            /\ mergedData' = Annotated(mergedData)
            /\ dataHistory' = Append(Slice(dataHistory, currentStep), Annotated(mergedData))
            /\ currentStep' = currentStep + 1
            /\ UNCHANGED <<netTable, allUnmatched>>
    /\ UNCHANGED <<pending, closure, derepVars, filterVars, fileVars, exported>>

\* handleStepDownload (App.tsx:379-385); the button of a step is enabled once
\* the step is behind the current one (App.tsx:1022-1024); nothing is
\* exported for a step without an entry in the history
StepDownload(stepIndex) ==
    /\ ~isLoading
    /\ stepIndex < currentStep
    /\ stepIndex + 1 <= Len(dataHistory)
    /\ exported' = Export(dataHistory[stepIndex + 1], "step")
    /\ UNCHANGED <<workflowVars, derepVars, filterVars, globalVars, closure, fileVars>>

\* handleUseWorkflowDataForDereplication (App.tsx:387-395); offered when the
\* workflow is through its last step (App.tsx:1036-1045)
UseWorkflowDataForDereplication ==
    /\ ~isLoading
    /\ currentStep > StepCount - 1
    /\ ~mergedData.isNull
    /\ dereplicationData' = mergedData
    /\ isDereplicated' = FALSE
    /\ dataBeforeDereplication' = NullTable
    /\ UNCHANGED <<workflowVars, filterVars, globalVars, closure, fileVars, exported>>

\* handleDownloadDereplicationResult (App.tsx:667-677); the button is shown
\* while isDereplicated, disabled while isLoading (App.tsx:1094-1096)
DownloadDereplicationResult ==
    /\ isDereplicated
    /\ ~isLoading
    /\ ~dereplicationData.isNull
    /\ exported' = Export(CleanedData(dereplicationData), "dereplicated_data")
    /\ UNCHANGED <<workflowVars, derepVars, filterVars, globalVars, closure, fileVars>>

\* handleDownloadFilterResult (App.tsx:492-496); the button is shown while
\* isFiltered, disabled while isLoading (App.tsx:1206-1208)
DownloadFilterResult ==
    /\ isFiltered
    /\ ~isLoading
    /\ ~filterToolData.isNull
    /\ exported' = Export(filterToolData, "filtered_data")
    /\ UNCHANGED <<workflowVars, derepVars, filterVars, globalVars, closure, fileVars>>

\* displayData, the table of the data view (App.tsx:911, 1432)
DisplayData ==
    IF ~dereplicationData.isNull THEN dereplicationData
    ELSE IF ~filterToolData.isNull THEN filterToolData
    ELSE mergedData

\* handleDownload (App.tsx:876-898); the button is enabled while a table is
\* displayed (App.tsx:911, 1422-1424)
Download ==
    /\ ~(dereplicationData.isNull /\ filterToolData.isNull /\ mergedData.isNull)
    /\ exported' =
          IF ~filterToolData.isNull THEN Export(filterToolData, "filtered_data")
          ELSE IF ~dereplicationData.isNull
          THEN Export(CleanedData(dereplicationData), "dereplicated_data")
          ELSE Export(mergedData, IF currentStep > StepCount - 1 THEN "annotated_data"
                                  ELSE "processed_data")
    /\ UNCHANGED <<workflowVars, derepVars, filterVars, globalVars, closure, fileVars>>

\* the state after construction (App.tsx:88-122), which handleReset restores
Blank ==
    /\ dereplicationData = NullTable
    /\ dataBeforeDereplication = NullTable
    /\ isDereplicated = FALSE
    /\ filterToolData = NullTable
    /\ dataBeforeFilter = NullTable
    /\ contaminantList = NullList
    /\ contaminantText = <<>>
    /\ isFiltered = FALSE
    /\ isLoading = FALSE
    /\ error = ""
    /\ currentStep = 0
    /\ netTable = NullTable
    /\ mergedData = NullTable
    /\ dataHistory = <<>>
    /\ allUnmatched = <<>>

\* handleReset (App.tsx:150-181); a pending parseFile promise is not cancelled
Reset ==
    /\ ~Blank
    /\ dereplicationData' = NullTable
    /\ dataBeforeDereplication' = NullTable
    /\ isDereplicated' = FALSE
    /\ filterToolData' = NullTable
    /\ dataBeforeFilter' = NullTable
    /\ contaminantList' = NullList
    /\ contaminantText' = <<>>
    /\ isFiltered' = FALSE
    /\ isLoading' = FALSE
    /\ error' = ""
    /\ currentStep' = 0
    /\ netTable' = NullTable
    /\ mergedData' = NullTable
    /\ dataHistory' = <<>>
    /\ allUnmatched' = <<>>
    /\ UNCHANGED <<pending, closure, fileVars, exported>>

(***************************************************************************)
(* The files the user may hold                                             *)
(***************************************************************************)
\* the most data rows of a file
MaxRows == 3

\* the non-empty sequences over pool of at most n elements
SeqsUpTo(pool, n) == UNION {[1..k -> pool] : k \in 1..n}

CON_1 == "CON_1"
HBO_2 == "hbo_2"
QC_1  == "QC-1"
QC_2  == "qc-2"
QCX_3 == "QC_3"

FullHeaders  == <<ID_COL, ANNOTATION_COL, CON_1, HBO_2, QC_1, QC_2>>
NoQcHeaders  == <<ID_COL, ANNOTATION_COL, CON_1, HBO_2, QCX_3>>
NoBioHeaders == <<ID_COL, ANNOTATION_COL, QC_1, QC_2>>
NoAnnotationHeaders == <<ID_COL, CON_1, HBO_2, QC_1, QC_2>>

\* a row of a sheet with the FullHeaders columns
DerepRow(id, annotation, bio1, bio2, qc1, qc2) ==
    (ID_COL :> id) @@ (ANNOTATION_COL :> annotation) @@ (CON_1 :> bio1)
        @@ (HBO_2 :> bio2) @@ (QC_1 :> qc1) @@ (QC_2 :> qc2)

\* the rows of the dereplication files: per row an ID, an annotation ("a",
\* with blanks around it, "b", blank, missing) and one of six measurement
\* profiles
\*   steady   bio 10 10    QC 50 50   missing  0%  RSD  0     avg 10
\*   strong   bio 20 "20"  QC 50 51   missing  0%  RSD  1.40  avg 20
\*   half     bio 20 null  QC 50 52   missing 50%  RSD  2.77  avg 20
\*   unstable bio 30 30    QC 50 80   missing  0%  RSD 32.64  avg 30
\*   empty    bio "x" 0    QC 50 50   missing 100%
\*   fewQc    bio 20 20    QC 50 null missing  0%  one QC value  avg 20
DerepRows ==
    { DerepRow(Num(1), Str(<<"a">>),      Num(10), Num(10), Num(50), Num(50)),
      DerepRow(Num(2), Str(<<"a", " ">>), Num(20), Str(<<"2", "0">>), Num(50), Num(51)),
      DerepRow(Num(3), Str(<<" ", "a">>), Num(20), Null, Num(50), Num(52)),
      DerepRow(Num(4), Str(<<"a">>),      Num(30), Num(30), Num(50), Num(80)),
      DerepRow(Num(1), Str(<<"a">>),      Str(<<"x">>), Num(0), Num(50), Num(50)),
      DerepRow(Str(<<"5">>), Str(<<"a">>), Num(20), Num(20), Num(50), Null),
      DerepRow(Num(2), Str(<<"b">>),      Num(10), Num(10), Num(50), Num(50)),
      DerepRow(Null,   Null,              Str(<<"x">>), Num(0), Num(50), Num(50)),
      DerepRow(Num(6), Str(<<" ">>),      Num(30), Num(30), Num(50), Num(80)) }

\* the dereplication files: sheets of up to MaxRows rows with every column,
\* a sheet without QC columns, one without biological columns, one without
\* the annotation column, and one without data rows
DerepFiles ==
    {File(FullHeaders, r) : r \in SeqsUpTo(DerepRows, MaxRows)}
    \cup { File(NoQcHeaders, <<(ID_COL :> Num(1)) @@ (ANNOTATION_COL :> Str(<<"a">>))
                               @@ (CON_1 :> Num(10)) @@ (HBO_2 :> Num(10)) @@ (QCX_3 :> Num(50))>>),
           File(NoBioHeaders, <<(ID_COL :> Num(1)) @@ (ANNOTATION_COL :> Str(<<"a">>))
                                @@ (QC_1 :> Num(50)) @@ (QC_2 :> Num(50))>>),
           File(NoAnnotationHeaders, <<(ID_COL :> Num(1)) @@ (CON_1 :> Num(10))
                                @@ (HBO_2 :> Num(10)) @@ (QC_1 :> Num(50)) @@ (QC_2 :> Num(50))>>),
           File(FullHeaders, <<>>) }

FilterHeaders == <<ID_COL, ANNOTATION_COL>>

FilterRow(id, annotation) == (ID_COL :> id) @@ (ANNOTATION_COL :> annotation)

\* the rows of the filter files: annotations "x", "x" with blanks, "X", "y",
\* blank and missing
FilterFileRows ==
    { FilterRow(Num(1), Str(<<"x">>)),
      FilterRow(Num(2), Str(<<" ", "x", " ">>)),
      FilterRow(Num(3), Str(<<"X">>)),
      FilterRow(Num(4), Str(<<"y">>)),
      FilterRow(Num(5), Str(<<" ">>)),
      FilterRow(Num(6), Null) }

FilterFiles ==
    {File(FilterHeaders, r) : r \in SeqsUpTo(FilterFileRows, MaxRows)}
    \cup { File(<<ID_COL>>, <<(ID_COL :> Num(1))>>), File(FilterHeaders, <<>>) }

\* the contaminant-list files: "x" and "y"; "x" with blanks and a missing
\* name; a sheet without the name column; a sheet without data rows
ListFiles ==
    { File(<<NAME_COL>>, <<(NAME_COL :> Str(<<"x">>)), (NAME_COL :> Str(<<"y">>))>>),
      File(<<NAME_COL>>, <<(NAME_COL :> Str(<<"x", " ">>)), (NAME_COL :> Null)>>),
      File(<<NAME_COL>>, <<(NAME_COL :> Str(<<" ">>))>>),
      File(<<ID_COL>>, <<(ID_COL :> Num(1))>>),
      File(<<NAME_COL>>, <<>>) }

\* the files of the filter tool: every filter file with the list of "x" and
\* "y", and the filter files with fewer rows with every list file
DefaultListFile ==
    File(<<NAME_COL>>, <<(NAME_COL :> Str(<<"x">>)), (NAME_COL :> Str(<<"y">>))>>)

FilterFileSets ==
    (FilterFiles \X {DefaultListFile})
    \cup (({File(FilterHeaders, r) : r \in SeqsUpTo(FilterFileRows, MaxRows - 1)}
            \cup { File(<<ID_COL>>, <<(ID_COL :> Num(1))>>) })
          \X ListFiles)

\* the texts the user may paste: "y" and "a" on two lines, and a blank line
\* followed by "X"
Texts == { << <<"y">>, <<" ", "a">> >>, << <<" ">>, <<"X">> >> }

\* the files of the processing workflow.  A base table with the IDs 1, " 2 ",
\* a missing one and 4 and the masses "100.1234", 0, "abc" and a blank one;
\* and one whose ID, MZ and RT come from its Filename column
BaseHeaders == <<ID_COL, MZ_COL, RT_COL>>

BaseRow(id, mz) == (ID_COL :> id) @@ (MZ_COL :> mz) @@ (RT_COL :> Num(1))

BaseFile ==
    File(BaseHeaders,
         << BaseRow(Num(1), Str(<<"1", "0", "0", ".", "1", "2", "3", "4">>)),
            BaseRow(Str(<<" ", "2", " ">>), Num(0)),
            BaseRow(Null, Str(<<"a", "b", "c">>)),
            BaseRow(Num(4), Str(<<" ">>)) >>)

FilenameFileHeaders == <<ID_COL, FILENAME_COL, CON_1>>

FilenameFileRow(id, filename) ==
    (ID_COL :> id) @@ (FILENAME_COL :> filename) @@ (CON_1 :> Num(10))

\* Filename cells "2 /MZ100.1234/1min", "3/ /1" and "x"
FilenameFile ==
    File(FilenameFileHeaders,
         << FilenameFileRow(Num(9), Str(<<"2", " ", "/", "M", "Z", "1", "0", "0", ".", "1", "2",
                                        "3", "4", "/", "1", "m", "i", "n">>)),
            FilenameFileRow(Num(9), Str(<<"3", "/", " ", "/", "1">>)),
            FilenameFileRow(Num(9), Str(<<"x">>)) >>)

FbmnHeaders ==
    <<ID_COL, COMPOUND_NAME_COL, MQ_SCORE_COL, LIBRARY_QUALITY_COL, SHARED_PEAKS_COL,
      MZ_ERROR_COL>>

FbmnRow(id, compoundName, mqScore, libQuality, sharedPeaks, mzError) ==
    (ID_COL :> id) @@ (COMPOUND_NAME_COL :> compoundName) @@ (MQ_SCORE_COL :> mqScore)
        @@ (LIBRARY_QUALITY_COL :> libQuality) @@ (SHARED_PEAKS_COL :> sharedPeaks)
        @@ (MZ_ERROR_COL :> mzError)

Gold  == Str(<<"G", "o", "l", "d">>)
Score(whole, tenths, hundredths) ==
    Str(<<Digits[whole + 1], ".", Digits[tenths + 1], Digits[hundredths + 1]>>)

\* a library row whose name is strong: MQScore "0.95", Gold, 12 peaks,
\* an error of "-4.90" ppm
StrongFbmnRow(id, compoundName) ==
    FbmnRow(id, compoundName, Score(0, 9, 5), Gold, Num(12),
            Str(<<"-", "4", ".", "9", "0">>))

\* the rows of the library files of the exact merge: the IDs 2, "2 ", 3,
\* "null" and a blank one
FbmnRows ==
    { StrongFbmnRow(Num(2), Str(<<"p">>)),
      StrongFbmnRow(Str(<<"2", " ">>), Str(<<"q">>)),
      StrongFbmnRow(Num(3), Str(<<"r">>)),
      StrongFbmnRow(Str(<<"n", "u", "l", "l">>), Str(<<"s">>)),
      StrongFbmnRow(Str(<<" ">>), Str(<<"t">>)) }

DefaultFbmnFile == File(FbmnHeaders, <<StrongFbmnRow(Num(1), Str(<<"A", "b">>))>>)

\* the library files: up to MaxRows rows, a sheet without the ID column and
\* one without data rows
FbmnFiles ==
    {File(FbmnHeaders, r) : r \in SeqsUpTo(FbmnRows, MaxRows)}
    \cup { File(<<COMPOUND_NAME_COL>>, <<(COMPOUND_NAME_COL :> Str(<<"p">>))>>),
           File(FbmnHeaders, <<>>) }

SiriusHeaders == <<ID_COL, NAME_COL, CONFIDENCE_COL>>

SiriusRow(id, name, confidence) ==
    (ID_COL :> id) @@ (NAME_COL :> name) @@ (CONFIDENCE_COL :> confidence)

DefaultSiriusFile == File(SiriusHeaders, <<SiriusRow(Num(1), Str(<<"c">>), Score(0, 8, 5))>>)

SupplementaryHeaders == <<ION_MASS_COL, FORMULA_COL>>

SupplementaryRow(ionMass, formula) == (ION_MASS_COL :> ionMass) @@ (FORMULA_COL :> formula)

\* the rows of the supplementary files: the masses "100.1228" and "100.1231"
\* (both 100.123), "100.1236" (100.124), a blank one and "x"
SupplementaryRows ==
    { SupplementaryRow(Str(<<"1", "0", "0", ".", "1", "2", "2", "8">>), Str(<<"C", "1">>)),
      SupplementaryRow(Str(<<"1", "0", "0", ".", "1", "2", "3", "1">>), Str(<<"C", "2">>)),
      SupplementaryRow(Str(<<"1", "0", "0", ".", "1", "2", "3", "6">>), Str(<<"C", "3">>)),
      SupplementaryRow(Str(<<" ">>), Str(<<"C", "4">>)),
      SupplementaryRow(Str(<<"x">>), Str(<<"C", "5">>)) }

DefaultSupplementaryFile ==
    File(SupplementaryHeaders,
         <<SupplementaryRow(Str(<<"1", "0", "0", ".", "1", "2", "2", "8">>), Str(<<"C", "1">>))>>)

\* the supplementary files: up to MaxRows rows, and a sheet without the
\* ionMass column
SupplementaryFiles ==
    {File(SupplementaryHeaders, r) : r \in SeqsUpTo(SupplementaryRows, MaxRows)}
    \cup { File(<<FORMULA_COL>>, <<(FORMULA_COL :> Str(<<"C", "1">>))>>) }

\* one-row library files for the base row with ID 1: the name "Ab" strong,
\* with MQScore "0.90", with quality "gold", with "10.9" peaks, with an error
\* of 5 ppm, with an unreadable score, strong with text behind its numbers;
\* a blank name and a missing name
ArbiterFbmnRows ==
    { StrongFbmnRow(Num(1), Str(<<"A", "b">>)),
      FbmnRow(Num(1), Str(<<"A", "b">>), Score(0, 9, 0), Gold, Num(12), Num(1)),
      FbmnRow(Num(1), Str(<<"A", "b">>), Score(0, 9, 5), Str(<<"g", "o", "l", "d">>), Num(12), Num(1)),
      FbmnRow(Num(1), Str(<<"A", "b">>), Score(0, 9, 5), Gold, Str(<<"1", "0", ".", "9">>), Num(1)),
      FbmnRow(Num(1), Str(<<"A", "b">>), Score(0, 9, 5), Gold, Num(12), Num(5)),
      FbmnRow(Num(1), Str(<<"A", "b">>), Str(<<"x">>), Gold, Num(12), Num(1)),
      FbmnRow(Num(1), Str(<<" ", "A", "b">>), Num(1), Gold, Str(<<"1", "1", "p">>),
              Str(<<"4", ".", "9", "x">>)),
      StrongFbmnRow(Num(1), Str(<<" ">>)),
      StrongFbmnRow(Num(1), Null) }

\* one-row structure files for the base row with ID 1: the names "aB" and
\* "c" with confidence "0.85", "c" with "0.80" and with none, and no name
ArbiterSiriusRows ==
    { SiriusRow(Num(1), Str(<<"a", "B">>), Score(0, 8, 5)),
      SiriusRow(Num(1), Str(<<"c">>), Score(0, 8, 5)),
      SiriusRow(Num(1), Str(<<"c">>), Score(0, 8, 0)),
      SiriusRow(Num(1), Str(<<"c", " ">>), Null),
      SiriusRow(Num(1), Null, Score(0, 8, 5)) }

\* no file chosen for any step of the workflow
NoFiles == <<>>

\* workflowFiles: the file held for each upload step
Files(base, fbmn, sirius, supplementary) ==
    (0 :> base) @@ (2 :> fbmn) @@ (3 :> sirius) @@ (4 :> supplementary)

\* a library or structure file that has the ID column and none of the
\* columns its step appends
IdOnlyFile == File(<<ID_COL>>, <<(ID_COL :> Num(1))>>)

\* every library file, every supplementary file and every pair of one-row
\* library and structure files, each with default files for the other steps
\* and the base table; and the default files behind the Filename table
WorkflowFileSets ==
    {Files(BaseFile, f, DefaultSiriusFile, DefaultSupplementaryFile) : f \in FbmnFiles}
    \cup {Files(BaseFile, DefaultFbmnFile, DefaultSiriusFile, p) : p \in SupplementaryFiles}
    \cup {Files(FilenameFile, DefaultFbmnFile, DefaultSiriusFile, DefaultSupplementaryFile)}
    \cup {Files(BaseFile, IdOnlyFile, IdOnlyFile, DefaultSupplementaryFile)}
    \cup {Files(BaseFile, File(FbmnHeaders, <<f>>), File(SiriusHeaders, <<s>>),
                DefaultSupplementaryFile) :
        f \in ArbiterFbmnRows, s \in ArbiterSiriusRows}

\* the rows of the dereplication files whose tables are exported: two rows
\* of the group "a" and one row of the group "b"
ExportRows ==
    { DerepRow(Num(1), Str(<<"a">>),      Num(10), Num(10), Num(50), Num(50)),
      DerepRow(Num(2), Str(<<"a", " ">>), Num(20), Str(<<"2", "0">>), Num(50), Num(51)),
      DerepRow(Num(3), Str(<<"b">>),      Num(10), Num(10), Num(50), Num(50)) }

ExportFiles == {File(FullHeaders, r) : r \in SeqsUpTo(ExportRows, MaxRows)}

\* the files of the two tools side by side: the shorter dereplication files
\* and one without QC columns, and a filter file with and one without the
\* annotation column
ToolsDerepFiles ==
    {File(FullHeaders, r) : r \in SeqsUpTo(ExportRows, MaxRows - 1)}
    \cup { File(NoQcHeaders, <<(ID_COL :> Num(1)) @@ (ANNOTATION_COL :> Str(<<"a">>))
                               @@ (CON_1 :> Num(10)) @@ (HBO_2 :> Num(10)) @@ (QCX_3 :> Num(50))>>) }

ToolsFilterFiles ==
    { File(FilterHeaders, <<FilterRow(Num(1), Str(<<"x">>)), FilterRow(Num(4), Str(<<"y">>))>>),
      File(<<ID_COL>>, <<(ID_COL :> Num(1))>>) }

\* the files of the page as a whole, as <<dereplication file, filter file,
\* list file, workflow files>>: files that are all accepted; files that are
\* refused at the upload or, for the dereplication, by the configuration
\* test; and workflow files of which the structure file is refused
AcceptedDerepFile ==
    File(FullHeaders,
         << DerepRow(Num(1), Str(<<"a">>), Num(10), Num(10), Num(50), Num(50)),
            DerepRow(Num(2), Str(<<"a", " ">>), Num(20), Str(<<"2", "0">>), Num(50), Num(51)) >>)

AcceptedFilterFile ==
    File(FilterHeaders, <<FilterRow(Num(1), Str(<<"x">>)), FilterRow(Num(4), Str(<<"y">>))>>)

LoadingFileSets ==
    { <<AcceptedDerepFile, AcceptedFilterFile, DefaultListFile,
        Files(BaseFile, IdOnlyFile, IdOnlyFile, DefaultSupplementaryFile)>>,
      <<File(NoQcHeaders, <<(ID_COL :> Num(1)) @@ (ANNOTATION_COL :> Str(<<"a">>))
                            @@ (CON_1 :> Num(10)) @@ (HBO_2 :> Num(10)) @@ (QCX_3 :> Num(50))>>),
        File(<<ID_COL>>, <<(ID_COL :> Num(1))>>),
        File(<<ID_COL>>, <<(ID_COL :> Num(1))>>),
        Files(File(BaseHeaders, <<>>), IdOnlyFile, IdOnlyFile, DefaultSupplementaryFile)>>,
      <<AcceptedDerepFile, AcceptedFilterFile, DefaultListFile,
        Files(BaseFile, IdOnlyFile, File(<<NAME_COL>>, <<(NAME_COL :> Str(<<"c">>))>>),
              DefaultSupplementaryFile)>> }

(***************************************************************************)
(* Specifications                                                          *)
(***************************************************************************)
DereplicationNext ==
    \/ StartDereplicationUpload
    \/ FinishDereplicationUpload
    \/ Dereplication
    \/ UndoDereplication
    \/ LoadDataForFiltering
    \/ Reset

FilterNext ==
    \/ StartFilterUpload
    \/ FinishFilterUpload
    \/ StartListUpload
    \/ FinishListUpload
    \/ \E text \in Texts : TypeText(text)
    \/ ProcessPastedList
    \/ ApplyFilter
    \/ UndoFilter
    \/ Reset

WorkflowNext ==
    \/ StartFileProcess
    \/ FinishFileProcess
    \/ ConfirmNetTable
    \/ GenerateAnnotation
    \/ \E stepIndex \in 0..(StepCount - 1) : StepDownload(stepIndex)
    \/ UseWorkflowDataForDereplication
    \/ Reset

\* the dereplication tool over every dereplication file
DereplicationInit ==
    /\ Blank
    /\ pending = {}
    /\ derepFile \in DerepFiles
    /\ filterFile = File(FilterHeaders, <<>>)
    /\ listFile = File(<<NAME_COL>>, <<>>)
    /\ workflowFiles = NoFiles
    /\ closure = NoClosure
    /\ exported = NoExport

DereplicationSpec == DereplicationInit /\ [][DereplicationNext]_vars

\* the filter tool over every filter file and list file
FilterInit ==
    /\ Blank
    /\ pending = {}
    /\ derepFile = File(FullHeaders, <<>>)
    /\ \E files \in FilterFileSets : filterFile = files[1] /\ listFile = files[2]
    /\ workflowFiles = NoFiles
    /\ closure = NoClosure
    /\ exported = NoExport

FilterSpec == FilterInit /\ [][FilterNext]_vars

\* the processing workflow over every set of workflow files
WorkflowInit ==
    /\ Blank
    /\ pending = {}
    /\ derepFile = File(FullHeaders, <<>>)
    /\ filterFile = File(FilterHeaders, <<>>)
    /\ listFile = File(<<NAME_COL>>, <<>>)
    /\ workflowFiles \in WorkflowFileSets
    /\ closure = NoClosure
    /\ exported = NoExport

WorkflowSpec == WorkflowInit /\ [][WorkflowNext]_vars

\* the processing workflow when the reset is confirmed only while no
\* parseFile promise is pending
OrderlyReset == pending = {} /\ Reset

OrderlyNext ==
    \/ StartFileProcess
    \/ FinishFileProcess
    \/ ConfirmNetTable
    \/ GenerateAnnotation
    \/ \E stepIndex \in 0..(StepCount - 1) : StepDownload(stepIndex)
    \/ UseWorkflowDataForDereplication
    \/ OrderlyReset

OrderlySpec == WorkflowInit /\ [][OrderlyNext]_vars

\* the dereplication tool, the filter tool behind it and the downloads
ExportNext ==
    \/ StartDereplicationUpload
    \/ FinishDereplicationUpload
    \/ Dereplication
    \/ UndoDereplication
    \/ DownloadDereplicationResult
    \/ LoadDataForFiltering
    \/ \E text \in Texts : TypeText(text)
    \/ ProcessPastedList
    \/ ApplyFilter
    \/ UndoFilter
    \/ DownloadFilterResult
    \/ Download
    \/ Reset

ExportInit ==
    /\ Blank
    /\ pending = {}
    /\ derepFile \in ExportFiles
    /\ filterFile = File(FilterHeaders, <<>>)
    /\ listFile = File(<<NAME_COL>>, <<>>)
    /\ workflowFiles = NoFiles
    /\ closure = NoClosure
    /\ exported = NoExport

ExportSpec == ExportInit /\ [][ExportNext]_vars

\* the dereplication tool and the filter tool with their own uploads
ToolsNext ==
    \/ StartDereplicationUpload
    \/ FinishDereplicationUpload
    \/ Dereplication
    \/ UndoDereplication
    \/ LoadDataForFiltering
    \/ StartFilterUpload
    \/ FinishFilterUpload
    \/ \E text \in Texts : TypeText(text)
    \/ ProcessPastedList
    \/ ApplyFilter
    \/ UndoFilter
    \/ Reset

ToolsInit ==
    /\ Blank
    /\ pending = {}
    /\ derepFile \in ToolsDerepFiles
    /\ filterFile \in ToolsFilterFiles
    /\ listFile = File(<<NAME_COL>>, <<>>)
    /\ workflowFiles = NoFiles
    /\ closure = NoClosure
    /\ exported = NoExport

ToolsSpec == ToolsInit /\ [][ToolsNext]_vars

\* every handler that sets the loading flag, with the handlers that move the
\* page between them
LoadingNext ==
    \/ StartFileProcess
    \/ FinishFileProcess
    \/ ConfirmNetTable
    \/ GenerateAnnotation
    \/ StartDereplicationUpload
    \/ FinishDereplicationUpload
    \/ Dereplication
    \/ StartFilterUpload
    \/ FinishFilterUpload
    \/ StartListUpload
    \/ FinishListUpload
    \/ ApplyFilter
    \/ Reset

LoadingInit ==
    /\ Blank
    /\ pending = {}
    /\ \E files \in LoadingFileSets :
          /\ derepFile = files[1]
          /\ filterFile = files[2]
          /\ listFile = files[3]
          /\ workflowFiles = files[4]
    /\ closure = NoClosure
    /\ exported = NoExport

\* the parseFile promise of an upload settles and its handler continues:
\* the step each Finish action takes, as far as the pending reads show it
Settles(upload) == upload \in pending /\ pending' = pending \ {upload}

\* every file read settles
LoadingSpec ==
    /\ LoadingInit
    /\ [][LoadingNext]_vars
    /\ WF_pending(Settles("workflow"))
    /\ WF_pending(Settles("dereplication"))
    /\ WF_pending(Settles("filter"))
    /\ WF_pending(Settles("list"))

(***************************************************************************)
(* The vocabulary of the claims, stated from the specification's words     *)
(* and not from the handlers' code                                         *)
(***************************************************************************)
StatusOf(row) == Get(row, STATUS_KEY)

\* the trimmed resolved annotation of a row, empty when missing
AnnotationOf(row) ==
    LET c == Get(row, ANNOTATION_COL)
    IN  IF TypeOf(c) = "string" THEN Trim(c[2]) ELSE <<>>

\* the positions of the rows of the annotation group of row i
GroupOf(rows, i) ==
    {j \in 1..Len(rows) : AnnotationOf(rows[j]) = AnnotationOf(rows[i])}

\* row i belongs to an annotation group of two or more rows
InMultiGroup(rows, i) ==
    AnnotationOf(rows[i]) # <<>> /\ Cardinality(GroupOf(rows, i)) >= 2

\* the number of columns of cols in which the row holds a number > 0
PositiveCount(row, cols) ==
    Cardinality({k \in 1..Len(cols) :
        LET x == ToNumber(Get(row, cols[k])) IN ~x.nan /\ x.v > 0})

\* missingRate = 100 * (1 - positiveCount / biologicalColumnCount) > 50
MissingAbove50(row, headers) ==
    LET n == Len(BioCols(headers))
    IN  100 * (n - PositiveCount(row, BioCols(headers))) > 50 * n

\* missingRate = 50
MissingExactly50(row, headers) ==
    LET n == Len(BioCols(headers))
    IN  100 * (n - PositiveCount(row, BioCols(headers))) = 50 * n

\* fewer than two positive numeric QC values: the fallback-pass case
FewQcValues(row, headers) == PositiveCount(row, QcCols(headers)) < 2

\* the RSD of the positive QC values, with the n - 1 divisor, is above 30:
\* with S their sum and Q the sum of their squares the variance is
\* (n Q - S^2) / (n (n - 1)) and the mean S / n, so that
\* rsd^2 = 10^4 n (n Q - S^2) / ((n - 1) S^2)
RsdAbove30(row, headers) ==
    LET q == PositiveValues(row, QcCols(headers))
        n == Len(q)
        S == SumSeq(q)
        Q == SumSeq([k \in 1..n |-> q[k] * q[k]])
    IN  n >= 2 /\ 100 * n * (n * Q - S * S) > 9 * (n - 1) * S * S

\* the row survives the missing-rate and the QC filter
Survives(row, headers) == ~MissingAbove50(row, headers) /\ ~RsdAbove30(row, headers)

\* the input and the output of the dereplication that isDereplicated records
Input  == dataBeforeDereplication
Output == dereplicationData

\* the positions of the rows of the group of row i of the output that hold status st
WithStatus(rows, i, st) == {j \in GroupOf(rows, i) : StatusOf(rows[j]) = st}

(***************************************************************************)
(* The claims                                                              *)
(***************************************************************************)
\* C1: after dereplication every annotation group of two or more rows has
\* exactly one row with status Retained when at least one of its rows
\* survives the missing-rate and QC filters, and none when no row survives;
\* the identifiers need not be unique.
C1_OneRetainedPerGroup ==
    isDereplicated =>
        \A i \in 1..Len(Output.rows) :
            InMultiGroup(Output.rows, i) =>
                Cardinality(WithStatus(Output.rows, i, Retained)) =
                    IF \E j \in GroupOf(Output.rows, i) : Survives(Output.rows[j], Output.headers)
                    THEN 1 ELSE 0

\* C2: dereplication preserves the order and the number of the rows: the
\* i-th output row is the i-th input row plus a status, whatever the
\* identifiers.
C2_OrderPreserved ==
    isDereplicated =>
        /\ Len(Output.rows) = Len(Input.rows)
        /\ \A i \in 1..Len(Input.rows) :
              /\ HasKey(Output.rows[i], STATUS_KEY)
              /\ Delete(Output.rows[i], STATUS_KEY) = Input.rows[i]

\* C9: a dereplication that aborts on a configuration error (no biological,
\* no QC or no identifier column) leaves the loaded table, the dereplicated
\* flag and the undo snapshot as they were.
C9_AbortLeavesNoTrace ==
    [][(Dereplication /\ ConfigError(dereplicationData.headers) # "")
          => /\ error' # ""
             /\ UNCHANGED <<dereplicationData, isDereplicated, dataBeforeDereplication>>]_vars

\* the winner of the group of key in the input, and its candidates, as
\* handleDereplication determined them
InputGroup(key)      == GroupRows(Input.rows, key)
InputCandidates(key) ==
    Candidates(Input.rows, InputGroup(key), BioCols(Input.headers), QcCols(Input.headers))
InputWinner(key)     ==
    Winner(Input.rows, InputGroup(key), BioCols(Input.headers), QcCols(Input.headers))

\* the keys of the input's groups of two or more rows
MultiGroupKeys ==
    {AnnotationOf(Input.rows[i]) : i \in {j \in 1..Len(Input.rows) : InMultiGroup(Input.rows, j)}}

SeqToSet(s) == {s[k] : k \in 1..Len(s)}

C4_OnlyTheWinnerIsRetained ==
    isDereplicated =>
        \A i \in 1..Len(Output.rows) :
            /\ StatusOf(Output.rows[i]) \in {Retained, Removed}
            /\ InMultiGroup(Output.rows, i) =>
                  /\ Cardinality(GroupOf(Output.rows, i) \ WithStatus(Output.rows, i, Removed)) <= 1
                  /\ ~Survives(Output.rows[i], Output.headers)
                        => StatusOf(Output.rows[i]) = Removed

\* C5: a row without an annotation, and a row that is alone in its
\* annotation group, ends dereplication Retained whatever its values.
C5_UngroupedRowsRetained ==
    isDereplicated =>
        \A i \in 1..Len(Output.rows) :
            ~InMultiGroup(Output.rows, i) => StatusOf(Output.rows[i]) = Retained

\* C5 witness: an output with a row without annotation and a row alone in
\* its group, both failing a filter.
C5_Witness ==
    /\ isDereplicated
    /\ \E i, j \in 1..Len(Output.rows) :
          /\ AnnotationOf(Output.rows[i]) = <<>>
          /\ MissingAbove50(Output.rows[i], Output.headers)
          /\ AnnotationOf(Output.rows[j]) # <<>>
          /\ GroupOf(Output.rows, j) = {j}
          /\ RsdAbove30(Output.rows[j], Output.headers)

\* C6: every missingRate lies in [0, 100]; in a group of two or more rows
\* the winner never has missingRate > 50, and a row with missingRate of
\* exactly 50 that passes the QC filter is a candidate.
C6_HighMissingNeverWins ==
    isDereplicated =>
        /\ \A i \in 1..Len(Input.rows) :
              LET m == MissingRate(Input.rows[i], BioCols(Input.headers))
              IN  0 <= m.num /\ m.num <= 100 * m.den
        /\ \A key \in MultiGroupKeys :
              LET w     == InputWinner(key)
                  cands == SeqToSet(InputCandidates(key))
              IN  /\ w # 0 => ~MissingAbove50(Input.rows[w], Input.headers)
                  /\ \A i \in SeqToSet(InputGroup(key)) :
                        (MissingExactly50(Input.rows[i], Input.headers)
                            /\ ~RsdAbove30(Input.rows[i], Input.headers))
                          => i \in cands

\* C6 witness: the winner of a group has missingRate 50 and another row of
\* the group has more.
C6_Witness ==
    /\ isDereplicated
    /\ \E key \in MultiGroupKeys :
          /\ InputWinner(key) # 0
          /\ MissingExactly50(Input.rows[InputWinner(key)], Input.headers)
          /\ \E i \in SeqToSet(InputGroup(key)) : MissingAbove50(Input.rows[i], Input.headers)

\* C7: a row that survives the QC filter has fewer than two positive QC
\* values and the recorded RSD 0, or an RSD (n - 1 divisor) of at most 30;
\* a row with two or more positive QC values and RSD > 30 is no candidate
\* and no winner.
C7_SurvivorsAreStable ==
    isDereplicated =>
        \A key \in MultiGroupKeys :
            /\ \A i \in SeqToSet(InputCandidates(key)) :
                  \/ /\ FewQcValues(Input.rows[i], Input.headers)
                     /\ Stage1(Input.rows[i], BioCols(Input.headers), QcCols(Input.headers)).rsd = 0
                  \/ /\ ~FewQcValues(Input.rows[i], Input.headers)
                     /\ ~RsdAbove30(Input.rows[i], Input.headers)
            /\ LET w == InputWinner(key)
               IN  w # 0 => ~RsdAbove30(Input.rows[w], Input.headers)

\* C7 witness: a group with a candidate by the fallback, a candidate with a
\* computed RSD, and a row whose RSD is above 30.
C7_Witness ==
    /\ isDereplicated
    /\ \E key \in MultiGroupKeys :
          /\ \E i \in SeqToSet(InputCandidates(key)) : FewQcValues(Input.rows[i], Input.headers)
          /\ \E i \in SeqToSet(InputCandidates(key)) : ~FewQcValues(Input.rows[i], Input.headers)
          /\ \E i \in SeqToSet(InputGroup(key)) : RsdAbove30(Input.rows[i], Input.headers)

\* the mean of the positive biological values of row a is above that of row
\* b (0 for a row without positive values)
MeanAbove(a, b, headers) ==
    LET pa == PositiveValues(a, BioCols(headers))
        pb == PositiveValues(b, BioCols(headers))
        na == IF Len(pa) = 0 THEN 1 ELSE Len(pa)
        nb == IF Len(pb) = 0 THEN 1 ELSE Len(pb)
    IN  SumSeq(pa) * nb > SumSeq(pb) * na

\* those of the rows at the positions final whose avgIntensity is the maximum
BestOf(final) ==
    {i \in final :
        \A j \in final : ~MeanAbove(Input.rows[j], Input.rows[i], Input.headers)}

\* the candidates of the group of key inside the RSD window
InputFinalCandidates(key) ==
    SeqToSet(FinalCandidates(Input.rows, InputCandidates(key),
                             BioCols(Input.headers), QcCols(Input.headers)))

\* C8: when several candidates inside the RSD window share the maximal
\* avgIntensity, the winner is the one that comes first in the input.
C8_EarlierRowWinsTies ==
    isDereplicated =>
        \A key \in MultiGroupKeys :
            Len(InputCandidates(key)) > 1 =>
                LET best == BestOf(InputFinalCandidates(key))
                    w    == InputWinner(key)
                IN  /\ w \in best
                    /\ \A j \in best : w <= j

\* C8 witness: two candidates inside the window tie at the maximum, and the
\* output holds the earlier one Retained and the later one Removed.
C8_Witness ==
    /\ isDereplicated
    /\ \E key \in MultiGroupKeys :
          /\ Len(InputCandidates(key)) > 1
          /\ \E i, j \in BestOf(InputFinalCandidates(key)) :
                /\ i < j
                /\ StatusOf(Output.rows[i]) = Retained
                /\ Delete(Output.rows[i], STATUS_KEY) = Input.rows[i]
                /\ StatusOf(Output.rows[j]) = Removed
                /\ Delete(Output.rows[j], STATUS_KEY) = Input.rows[j]

\* C10: filtering a table with a list, and filtering the result with the
\* same list again, gives the table that filtering once gives.
C10_FilterIdempotent ==
    (~filterToolData.isNull /\ ~contaminantList.isNull) =>
        Filtered(Filtered(filterToolData, contaminantList.names), contaminantList.names)
            = Filtered(filterToolData, contaminantList.names)

\* C10 witness: handleApplyFilter has removed two rows in a row from a table
\* and kept others, and the list is still the one it used.
C10_Witness ==
    /\ isFiltered
    /\ ~dataBeforeFilter.isNull
    /\ ~contaminantList.isNull
    /\ filterToolData = Filtered(dataBeforeFilter, contaminantList.names)
    /\ Len(filterToolData.rows) > 0
    /\ \E k \in 1..(Len(dataBeforeFilter.rows) - 1) :
          /\ ~KeepsRow(dataBeforeFilter.rows[k], contaminantList.names)
          /\ ~KeepsRow(dataBeforeFilter.rows[k + 1], contaminantList.names)

\* the row's trimmed annotation is a member of the exclusion set
Excluded(row, names) == AnnotationOf(row) # <<>> /\ AnnotationOf(row) \in names

\* the positions of the rows of a table that the exclusion set does not name
KeptPositions(rows, names) == {i \in 1..Len(rows) : ~Excluded(rows[i], names)}

\* C11: the filter removes exactly the rows whose trimmed Final_Annotation
\* is in the exclusion set (case-sensitive) and keeps every other row, the
\* rows without annotation included, in input order and under the same
\* headers.
C11_FilterRemovesExactlyTheNamed ==
    (~filterToolData.isNull /\ ~contaminantList.isNull) =>
        LET out  == Filtered(filterToolData, contaminantList.names)
            kept == KeptPositions(filterToolData.rows, contaminantList.names)
        IN  /\ out.headers = filterToolData.headers
            /\ Len(out.rows) = Cardinality(kept)
            /\ \A i \in kept :
                  out.rows[Cardinality({j \in kept : j <= i})] = filterToolData.rows[i]

\* C11 witness: handleApplyFilter has removed a row whose annotation had
\* blanks around a listed name and kept a row that differs from a listed
\* name in case only and a row without annotation.
C11_Witness ==
    /\ isFiltered
    /\ ~dataBeforeFilter.isNull
    /\ ~contaminantList.isNull
    /\ filterToolData = Filtered(dataBeforeFilter, contaminantList.names)
    /\ \E i \in 1..Len(dataBeforeFilter.rows) :
          /\ Excluded(dataBeforeFilter.rows[i], contaminantList.names)
          /\ Get(dataBeforeFilter.rows[i], ANNOTATION_COL) # Str(AnnotationOf(dataBeforeFilter.rows[i]))
    /\ \E i \in 1..Len(filterToolData.rows) :
          AnnotationOf(filterToolData.rows[i]) = <<"X">> /\ <<"x">> \in contaminantList.names
    /\ \E i \in 1..Len(filterToolData.rows) : AnnotationOf(filterToolData.rows[i]) = <<>>

(***************************************************************************)
(* The processing workflow: what a merge step made of the table before it. *)
(* While the history holds the result of step s, its entry before is the   *)
(* table the step worked on.                                               *)
(***************************************************************************)
\* the history holds the result of the merge of the step
MergeDone(step) == Len(dataHistory) > step

\* the rows the merge of the step worked on, the rows it made of them, the
\* rows of the file it was given and the columns it appends
BaseRows(step)     == dataHistory[step].rows
MergedRowsOf(step) == dataHistory[step + 1].rows
IncomingRows(step) == workflowFiles[step].rows
AppendColumns(step) == SeqToSet(StepConfig(step).appendColumns)

ExactSteps == {2, 3}
ToleranceStep == 4

\* the incoming rows of the step that carry the non-empty trimmed key of row
IncomingWithKeyOf(step, row) ==
    {j \in 1..Len(IncomingRows(step)) :
        /\ HasExactKey(IncomingRows(step)[j])
        /\ ExactKey(IncomingRows(step)[j]) = ExactKey(row)}

Last(S) == CHOOSE j \in S : \A k \in S : k <= j

\* C12: in an exact-key merge every base row with a non-empty trimmed key that
\* occurs in the incoming table holds afterwards, under every append column,
\* the value of the last incoming row with that key, null where that row has
\* none; earlier incoming rows with the key contribute nothing
C12_LastIncomingRowWins ==
    \A step \in ExactSteps : MergeDone(step) =>
        /\ Len(MergedRowsOf(step)) = Len(BaseRows(step))
        /\ \A i \in 1..Len(BaseRows(step)) :
              LET hits == IncomingWithKeyOf(step, BaseRows(step)[i])
              IN  (HasExactKey(BaseRows(step)[i]) /\ hits # {}) =>
                    \A col \in AppendColumns(step) :
                        Get(MergedRowsOf(step)[i], col)
                            = OrNull(Get(IncomingRows(step)[Last(hits)], col))

\* a library merge is done in which the base row " 2 " met the incoming rows
\* 2 ("p") and "2 " ("q") in this order, took the name "q" and has null for
\* the adduct the file has no column for
C12_Witness ==
    /\ MergeDone(2)
    /\ Len(IncomingRows(2)) = 2
    /\ IncomingRows(2)[1] = StrongFbmnRow(Num(2), Str(<<"p">>))
    /\ IncomingRows(2)[2] = StrongFbmnRow(Str(<<"2", " ">>), Str(<<"q">>))
    /\ Get(BaseRows(2)[2], ID_COL) = Str(<<" ", "2", " ">>)
    /\ Get(MergedRowsOf(2)[2], COMPOUND_NAME_COL) = Str(<<"q">>)
    /\ Get(MergedRowsOf(2)[2], ADDUCT_COL) = Null

\* the unmatched keys recorded for the step, none when nothing is recorded
UnmatchedOf(step) == IF step \in DOMAIN allUnmatched THEN allUnmatched[step] ELSE <<>>

\* the non-empty trimmed keys of the rows
ExactKeysOf(rows) == {ExactKey(rows[i]) : i \in {j \in 1..Len(rows) : HasExactKey(rows[j])}}

DuplicateFree(s) == \A i, j \in 1..Len(s) : s[i] = s[j] => i = j

\* C13: after an exact-key merge the reported unmatched keys are, without
\* duplicates, exactly the non-empty trimmed keys of the incoming table that
\* are the key of no base row; a base row whose key is null or empty adds
\* nothing to the keys of the base table
C13_UnmatchedAreTheKeysOfNoBaseRow ==
    \A step \in ExactSteps : MergeDone(step) =>
        /\ DuplicateFree(UnmatchedOf(step))
        /\ SeqToSet(UnmatchedOf(step))
              = {Str(k) : k \in ExactKeysOf(IncomingRows(step)) \ ExactKeysOf(BaseRows(step))}

\* the cell is a numeric key: present, not blank, and a number
IsNumericKey(c) == NotNullish(c) /\ Trim(ToStr(c)) # <<>> /\ ~NumberOf(c).nan

\* the keys, rounded to three decimal places, of the rows with a numeric key
\* under the column
RoundedKeysOf(rows, col) ==
    {MassKey(Get(rows[i], col)) : i \in {j \in 1..Len(rows) : IsNumericKey(Get(rows[j], col))}}

\* C14: after the tolerance merge the reported unmatched keys are, without
\* duplicates, exactly the rounded incoming keys that equal no rounded base
\* key; two incoming rows whose masses round to the same unmatched key are
\* reported once
C14_ToleranceUnmatchedAreRoundedKeys ==
    MergeDone(ToleranceStep) =>
        /\ DuplicateFree(UnmatchedOf(ToleranceStep))
        /\ SeqToSet(UnmatchedOf(ToleranceStep))
              = {Str(k) : k \in RoundedKeysOf(IncomingRows(ToleranceStep), ION_MASS_COL)
                                    \ RoundedKeysOf(BaseRows(ToleranceStep), MZ_COL)}

\* the incoming rows of the tolerance merge whose numeric key rounds to the
\* rounded numeric key of the base row
IncomingWithMassOf(row) ==
    {j \in 1..Len(IncomingRows(ToleranceStep)) :
        /\ IsNumericKey(Get(row, MZ_COL))
        /\ IsNumericKey(Get(IncomingRows(ToleranceStep)[j], ION_MASS_COL))
        /\ MassKey(Get(IncomingRows(ToleranceStep)[j], ION_MASS_COL)) = MassKey(Get(row, MZ_COL))}

\* C15: in the tolerance merge a base row is matched exactly when it and an
\* incoming row carry numeric keys that are equal after rounding to three
\* decimal places: a matched row holds under every append column the value of
\* the last incoming row with its rounded key, and a row without a match is
\* left as it was
C15_MatchOnRoundedMass ==
    MergeDone(ToleranceStep) =>
        /\ Len(MergedRowsOf(ToleranceStep)) = Len(BaseRows(ToleranceStep))
        /\ \A i \in 1..Len(BaseRows(ToleranceStep)) :
              LET hits == IncomingWithMassOf(BaseRows(ToleranceStep)[i])
              IN  IF hits # {}
                  THEN \A col \in AppendColumns(ToleranceStep) :
                          Get(MergedRowsOf(ToleranceStep)[i], col)
                              = OrNull(Get(IncomingRows(ToleranceStep)[Last(hits)], col))
                  ELSE MergedRowsOf(ToleranceStep)[i] = BaseRows(ToleranceStep)[i]

\* C16: in the tolerance merge a row whose key is missing or not numeric
\* (null, absent, an empty or blank string, non-numeric text) is skipped on
\* both sides: the lookup holds no such incoming row, a base row is changed
\* only by an incoming row with a numeric key of its rounded mass, and a base
\* row with such a key is left as it was
C16_NonNumericKeysAreSkipped ==
    MergeDone(ToleranceStep) =>
        LET lookup == ToleranceMatchMap(IncomingRows(ToleranceStep))
        IN  /\ \A k \in DOMAIN lookup : IsNumericKey(Get(lookup[k], ION_MASS_COL))
            /\ \A i \in 1..Len(BaseRows(ToleranceStep)) :
                  \/ MergedRowsOf(ToleranceStep)[i] = BaseRows(ToleranceStep)[i]
                  \/ IncomingWithMassOf(BaseRows(ToleranceStep)[i]) # {}

\* s is the start of t
IsPrefix(s, t) == Len(s) <= Len(t) /\ SubSeq(t, 1, Len(s)) = s

\* the elements of s occur in t in the order they have in s
RECURSIVE IsSubsequence(_, _)
IsSubsequence(s, t) ==
    IF s = <<>> THEN TRUE
    ELSE IF t = <<>> THEN FALSE
    ELSE IF Head(s) = Head(t) THEN IsSubsequence(Tail(s), Tail(t))
    ELSE IsSubsequence(s, Tail(t))

\* C17: the header names of the working table and of every table of the step
\* history are unique after any sequence of workflow steps; the import keeps
\* the headers of the file in their order, and every later step keeps the
\* headers it found in their places and adds only headers that were absent
C17_HeadersStayUnique ==
    /\ ~mergedData.isNull => DuplicateFree(mergedData.headers)
    /\ \A k \in 1..Len(dataHistory) :
          /\ DuplicateFree(dataHistory[k].headers)
          /\ IsSubsequence(workflowFiles[0].headers, dataHistory[k].headers)
          /\ k > 1 => IsPrefix(dataHistory[k - 1].headers, dataHistory[k].headers)

\* the workflow is through its last step on the table imported from the
\* Filename column: ID, MZ and RT stand once, MZ and RT behind Filename, and
\* molecularFormula, which two steps append, stands once
C17_Witness ==
    /\ currentStep = StepCount
    /\ workflowFiles[0] = FilenameFile
    /\ Len(dataHistory) = StepCount
    /\ SubSeq(mergedData.headers, 1, 5) = <<ID_COL, FILENAME_COL, MZ_COL, RT_COL, CON_1>>
    /\ Includes(dataHistory[4].headers, FORMULA_COL)
    /\ Cardinality({i \in 1..Len(mergedData.headers) : mergedData.headers[i] = FORMULA_COL}) = 1
    /\ mergedData.headers[Len(mergedData.headers)] = ANNOTATION_COL

\* the history holds the table the annotation step made
AnnotationStep == StepCount - 1
AnnotationDone == Len(dataHistory) > AnnotationStep

\* the trimmed names of the two sources in a row, empty when missing
NameA(row) == Trim(StringOrEmpty(Get(row, COMPOUND_NAME_COL)))
NameB(row) == Trim(StringOrEmpty(Get(row, NAME_COL)))

\* the name the decision order gives a row, the first rule that applies
\* deciding
Decided(row) ==
    CASE NameA(row) = <<>> /\ NameB(row) = <<>>           -> <<>>
      [] NameA(row) # <<>> /\ NameB(row) = <<>>           -> NameA(row)
      [] NameA(row) = <<>> /\ NameB(row) # <<>>           -> NameB(row)
      [] OTHER ->
            IF ToLowerCase(NameA(row)) = ToLowerCase(NameB(row)) THEN NameA(row)
            ELSE CASE IsFbmnStrong(row) /\ IsSiriusStrong(row)   -> NameB(row)
                   [] IsFbmnStrong(row) /\ ~IsSiriusStrong(row)  -> NameA(row)
                   [] ~IsFbmnStrong(row) /\ IsSiriusStrong(row)  -> NameB(row)
                   [] OTHER                                      -> NameA(row)

\* C18: the annotation arbiter gives every row a string, by the decision
\* order: both names empty, the empty string; one name present, that name;
\* names equal ignoring case, the spelling of source A; otherwise B when both
\* sources are strong, A when only A is, B when only B is, A when neither is
C18_ArbiterFollowsDecisionOrder ==
    AnnotationDone =>
        \A i \in 1..Len(BaseRows(AnnotationStep)) :
            Get(MergedRowsOf(AnnotationStep)[i], ANNOTATION_COL)
                = Str(Decided(BaseRows(AnnotationStep)[i]))

\* the annotation step has run on a row whose sources are both strong and
\* name it "Ab" and "c": its annotation is "c"
C18_Witness ==
    /\ AnnotationDone
    /\ NameA(BaseRows(AnnotationStep)[1]) = <<"A", "b">>
    /\ NameB(BaseRows(AnnotationStep)[1]) = <<"c">>
    /\ IsFbmnStrong(BaseRows(AnnotationStep)[1])
    /\ IsSiriusStrong(BaseRows(AnnotationStep)[1])
    /\ Get(MergedRowsOf(AnnotationStep)[1], ANNOTATION_COL) = Str(<<"c">>)

\* the file of the pending merge upload, and the required columns of its
\* step that the file has no header for
PendingFile == workflowFiles[closure.currentStep]
LackedColumns ==
    LET required == StepConfig(closure.currentStep).requiredColumns
        Lacked(col) == \A h \in 1..Len(PendingFile.headers) : PendingFile.headers[h] # col
    IN  SelectSeq(required, Lacked)

\* a merge upload is pending whose file has data rows and lacks a required
\* column of its step
MergeLacksColumns ==
    /\ "workflow" \in pending
    /\ closure.currentStep # 0
    /\ ~ParseRejects(PendingFile)
    /\ LackedColumns # <<>>

\* the pending upload took place with the base table and the working table
BaseDataHeld == ~closure.mergedData.isNull /\ ~closure.netTable.isNull

DerivedKeys == {STATUS_KEY, QC_RSD_KEY, AVG_KEY}

\* neither a header nor a row of the table carries a status or a metric
FreeOfDerived(table) ==
    /\ \A h \in 1..Len(table.headers) : table.headers[h] \notin DerivedKeys
    /\ \A i \in 1..Len(table.rows) : (DOMAIN table.rows[i]) \cap DerivedKeys = {}

\* the rows of the table are the rows of the dereplicated table whose status
\* is Retained, in their order and without the status
OnlyRetainedOf(table, dereplicated) ==
    LET retained == {i \in 1..Len(dereplicated.rows) :
                        Get(dereplicated.rows[i], STATUS_KEY) = Retained}
    IN  /\ Len(table.rows) = Cardinality(retained)
        /\ \A i \in retained :
              table.rows[Cardinality({j \in retained : j <= i})]
                  = Delete(dereplicated.rows[i], STATUS_KEY)

\* C20: a table handed to the exporter or passed on to the contaminant filter
\* after dereplication carries no status and no derived metric (_derep_status,
\* _qc_rsd, _avg_intensity) in any row or header and holds exactly the rows
\* whose status was Retained; the sheet the exporter writes holds as many
\* data rows, and whatever is exported or loaded into the filter tool at any
\* time is free of them as well
C20_NoStatusLeavesTheTool ==
    [][/\ (DownloadDereplicationResult
              \/ (Download /\ isDereplicated /\ filterToolData.isNull))
          => /\ FreeOfDerived(exported'.tableData)
             /\ OnlyRetainedOf(exported'.tableData, dereplicationData)
             /\ Len(exported'.dataToExport) = 1 + Len(exported'.tableData.rows)
       /\ (LoadDataForFiltering /\ ~dereplicationData.isNull)
          => /\ FreeOfDerived(filterToolData')
             /\ OnlyRetainedOf(filterToolData', dereplicationData)
       /\ FreeOfDerived(exported'.tableData)
       /\ FreeOfDerived(filterToolData')]_vars

\* a dereplicated table with a Removed row has been exported and passed on to
\* the filter tool: both tables are the retained rows without the status
C20_Witness ==
    /\ isDereplicated
    /\ \E i \in 1..Len(dereplicationData.rows) :
          Get(dereplicationData.rows[i], STATUS_KEY) = Removed
    /\ exported.fileName = "dereplicated_data"
    /\ exported.tableData = CleanedData(dereplicationData)
    /\ exported.tableData.rows # <<>>
    /\ Len(exported.tableData.rows) < Len(dereplicationData.rows)
    /\ filterToolData = exported.tableData

(***************************************************************************)
(* Undo                                                                    *)
(***************************************************************************)
\* no row of the table carries a status
NoStatus(table) ==
    \A i \in 1..Len(table.rows) : ~HasKey(table.rows[i], STATUS_KEY)

\* C21: undo is an exact round trip.  The step that sets the filtered flag
\* keeps the table it filtered as the snapshot, the snapshot stays as it is
\* while the flag stays set, and undoing the filter puts exactly the snapshot
\* back; the same holds of the dereplicated flag, the pre-dereplication
\* snapshot and the undo of the dereplication, and the table put back carries
\* no status
C21_UndoIsARoundTrip ==
    [][/\ (~isFiltered /\ isFiltered') =>
              /\ dataBeforeFilter' = filterToolData
              /\ ~filterToolData.isNull
       /\ (isFiltered /\ isFiltered') => dataBeforeFilter' = dataBeforeFilter
       /\ UndoFilter =>
              /\ filterToolData' = dataBeforeFilter
              /\ ~filterToolData'.isNull
              /\ ~isFiltered'
       /\ (~isDereplicated /\ isDereplicated') =>
              /\ dataBeforeDereplication' = dereplicationData
              /\ ~dereplicationData.isNull
              /\ NoStatus(dereplicationData)
       /\ (isDereplicated /\ isDereplicated') =>
              dataBeforeDereplication' = dataBeforeDereplication
       /\ UndoDereplication =>
              /\ dereplicationData' = dataBeforeDereplication
              /\ ~dereplicationData'.isNull
              /\ NoStatus(dereplicationData')
              /\ ~isDereplicated']_vars

\* the filtered table was downloaded and both tools then went back: the
\* filter tool holds the table of which the download is the filtered one
\* and the dereplication tool a table without statuses, neither flag is
\* set and neither snapshot is kept
C21_Witness ==
    /\ ~isFiltered
    /\ dataBeforeFilter.isNull
    /\ ~contaminantList.isNull
    /\ exported.fileName = "filtered_data"
    /\ exported.tableData = Filtered(filterToolData, contaminantList.names)
    /\ Len(exported.tableData.rows) < Len(filterToolData.rows)
    /\ ~isDereplicated
    /\ dataBeforeDereplication.isNull
    /\ ~dereplicationData.isNull
    /\ Len(dereplicationData.rows) >= 2
    /\ NoStatus(dereplicationData)

(***************************************************************************)
(* The RSD window of the dereplication                                     *)
(***************************************************************************)
\* the RSD a survivor counts with, in hundredths of a percent: 0 with fewer
\* than two valid QC values
CountedRsd(row, headers) ==
    IF FewQcValues(row, headers) THEN 0
    ELSE RsdOf(PositiveValues(row, QcCols(headers)))

\* the positions of the rows of the input's group of key that survive the
\* filters
Survivors(key) ==
    {i \in SeqToSet(InputGroup(key)) : Survives(Input.rows[i], Input.headers)}

\* those of the survivors whose RSD is strictly less than minRsd + 2
InsideWindow(survivors) ==
    {i \in survivors :
        \A j \in survivors :
            CountedRsd(Input.rows[i], Input.headers)
                < CountedRsd(Input.rows[j], Input.headers) + 200}

\* C22: when more than one row of a group survives the filters, the winner
\* is a survivor whose RSD is strictly less than minRsd + 2 (a survivor with
\* fewer than two valid QC values counting as RSD 0) and whose avgIntensity
\* is the maximum among the survivors inside that window; a survivor outside
\* the window is never the winner
C22_WinnerIsInsideTheWindow ==
    isDereplicated =>
        \A key \in MultiGroupKeys :
            Cardinality(Survivors(key)) > 1 =>
                LET w      == InputWinner(key)
                    inside == InsideWindow(Survivors(key))
                IN  /\ w \in inside
                    /\ \A j \in inside :
                          ~MeanAbove(Input.rows[j], Input.rows[w], Input.headers)

\* C22 witness: a group has a survivor outside the window whose avgIntensity
\* is above the winner's, and the output holds the winner Retained and that
\* survivor Removed
C22_Witness ==
    /\ isDereplicated
    /\ \E key \in MultiGroupKeys :
          LET w == InputWinner(key)
          IN  /\ Cardinality(Survivors(key)) > 1
              /\ w # 0
              /\ StatusOf(Output.rows[w]) = Retained
              /\ Delete(Output.rows[w], STATUS_KEY) = Input.rows[w]
              /\ \E j \in Survivors(key) \ InsideWindow(Survivors(key)) :
                    /\ MeanAbove(Input.rows[j], Input.rows[w], Input.headers)
                    /\ StatusOf(Output.rows[j]) = Removed
                    /\ Delete(Output.rows[j], STATUS_KEY) = Input.rows[j]

(***************************************************************************)
(* What a merge leaves as it was                                           *)
(***************************************************************************)
MergeSteps == ExactSteps \cup {ToleranceStep}

\* the incoming rows of the step whose key matches the key of the base row:
\* none for a base row whose key is null or empty
MatchesOf(step, row) ==
    IF step \in ExactSteps
    THEN IF HasExactKey(row) THEN IncomingWithKeyOf(step, row) ELSE {}
    ELSE IncomingWithMassOf(row)

\* the merged row holds, under every column that is not an append column of
\* the step, what the base row holds, and no other such column
KeepsOtherColumns(step, base, merged) ==
    /\ (DOMAIN merged) \ AppendColumns(step) = (DOMAIN base) \ AppendColumns(step)
    /\ \A col \in (DOMAIN base) \ AppendColumns(step) : merged[col] = base[col]

\* C23: both merges leave everything else untouched: the merged table has as
\* many rows as the base table, in the same order, a base row with a null or
\* empty key or with no matching incoming key is passed through with all its
\* values unchanged, and on a matched row every column that is not one of
\* the step's append columns keeps its value
C23_MergeLeavesTheRestUntouched ==
    \A step \in MergeSteps : MergeDone(step) =>
        /\ Len(MergedRowsOf(step)) = Len(BaseRows(step))
        /\ \A i \in 1..Len(BaseRows(step)) :
              IF MatchesOf(step, BaseRows(step)[i]) = {}
              THEN MergedRowsOf(step)[i] = BaseRows(step)[i]
              ELSE KeepsOtherColumns(step, BaseRows(step)[i], MergedRowsOf(step)[i])

(***************************************************************************)
(* The step counter and the step history                                   *)
(***************************************************************************)
\* the history holds a result for every step behind the given one
HistoryCovers(step, history) ==
    /\ step >= 1 => Len(history) = step
    /\ \A index \in 0..(step - 1) :
          index + 1 \in DOMAIN history /\ ~history[index + 1].isNull

\* C24: while no reset happens during a pending file parse, currentStep
\* stays within 0..6, changes only by +1, with a new result at the end of
\* the history, or to 0 with the history emptied, and whenever
\* currentStep >= 1 the history holds exactly currentStep tables, so that
\* every step whose download is enabled (index < currentStep) has a stored
\* result
C24_HistoryFollowsTheStep ==
    [][/\ currentStep \in 0..StepCount
       /\ currentStep' \in 0..StepCount
       /\ HistoryCovers(currentStep, dataHistory)
       /\ HistoryCovers(currentStep', dataHistory')
       /\ currentStep' # currentStep =>
              \/ /\ currentStep' = currentStep + 1
                 /\ Len(dataHistory') = currentStep + 1
                 /\ Slice(dataHistory', currentStep) = Slice(dataHistory, currentStep)
              \/ /\ currentStep' = 0
                 /\ dataHistory' = <<>>]_vars

\* the workflow is through its six steps with six tables in the history,
\* and the result of the last step has been downloaded
C24_Witness ==
    /\ currentStep = StepCount
    /\ Len(dataHistory) = StepCount
    /\ pending = {}
    /\ exported.fileName = "step"
    /\ exported.tableData = dataHistory[StepCount]
    /\ Includes(exported.tableData.headers, ANNOTATION_COL)

(***************************************************************************)
(* A reset while an upload of the workflow is being parsed                 *)
(***************************************************************************)
\* the workflow is in the state a reset leaves
WorkflowIsReset ==
    /\ currentStep = 0
    /\ netTable.isNull
    /\ mergedData.isNull
    /\ dataHistory = <<>>

\* C25: a reset confirmed while a workflow upload is still being parsed
\* wins: when the parse completes in the state the reset left, the workflow
\* is in that state afterwards too; the late completion writes no working
\* table and does not advance the step
C25_ResetWinsOverThePendingUpload ==
    [][(FinishFileProcess /\ Blank) =>
          /\ currentStep' = 0
          /\ netTable'.isNull
          /\ mergedData'.isNull
          /\ dataHistory' = <<>>]_vars

(***************************************************************************)
(* The flags and the snapshots of the two tools                            *)
(***************************************************************************)
\* an undo that is shown has a table to put back
FlagsHaveSnapshots ==
    /\ isFiltered => ~dataBeforeFilter.isNull
    /\ isDereplicated => ~dataBeforeDereplication.isNull

\* C26: in every reachable state the filtered flag implies a stored
\* pre-filter snapshot and the dereplicated flag a stored pre-dereplication
\* snapshot; and a step that loads a table into a tool (an upload or the
\* hand-over from the dereplication tool, that is every change of the tool's
\* table that is neither the transform nor its undo) leaves that tool's flag
\* cleared and its snapshot empty
C26_FlagsHaveSnapshots ==
    [][/\ FlagsHaveSnapshots
       /\ FlagsHaveSnapshots'
       /\ (filterToolData' # filterToolData /\ ~ApplyFilter /\ ~UndoFilter) =>
              ~isFiltered' /\ dataBeforeFilter'.isNull
       /\ (dereplicationData' # dereplicationData /\ ~Dereplication /\ ~UndoDereplication) =>
              ~isDereplicated' /\ dataBeforeDereplication'.isNull]_vars

\* both undo buttons are shown and each has its table: the filter tool holds
\* a filtered table next to the table before it, and the dereplication tool
\* a dereplicated table next to the uploaded one
C26_Witness ==
    /\ isFiltered
    /\ ~dataBeforeFilter.isNull
    /\ Len(filterToolData.rows) < Len(dataBeforeFilter.rows)
    /\ isDereplicated
    /\ ~dataBeforeDereplication.isNull
    /\ dataBeforeDereplication = Parsed(derepFile)
    /\ dereplicationData = Dereplicated(dataBeforeDereplication)

(***************************************************************************)
(* The columns the arbiter needs                                           *)
(***************************************************************************)
\* the seven columns the annotation step reads
ArbiterColumns ==
    {COMPOUND_NAME_COL, NAME_COL, MQ_SCORE_COL, LIBRARY_QUALITY_COL, SHARED_PEAKS_COL,
     MZ_ERROR_COL, CONFIDENCE_COL}

\* the workflow is at the annotation step with a working table that has the
\* seven columns among its headers
ReadyForAnnotation ==
    currentStep = AnnotationStep =>
        /\ ~mergedData.isNull
        /\ \A col \in ArbiterColumns : Includes(mergedData.headers, col)

\* C27: whenever the workflow is at the annotation step (currentStep = 5)
\* the headers of the working table contain the seven columns the arbiter
\* needs, even if the uploaded library or structure file lacked them, so
\* that generating the annotation never ends in its missing-column error and
\* always advances to step 6
C27_ArbiterColumnsArePresent ==
    [][/\ ReadyForAnnotation
       /\ ReadyForAnnotation'
       /\ GenerateAnnotation =>
              /\ currentStep' = StepCount
              /\ error' = ""
              /\ Includes(mergedData'.headers, ANNOTATION_COL)]_vars

\* the annotation has been generated over a working table whose library and
\* structure files had the ID column only
C27_Witness ==
    /\ currentStep = StepCount
    /\ AnnotationDone
    /\ workflowFiles[2].headers = <<ID_COL>>
    /\ workflowFiles[3].headers = <<ID_COL>>
    /\ \A col \in ArbiterColumns : Includes(mergedData.headers, col)
    /\ Includes(mergedData.headers, ANNOTATION_COL)
    /\ \A i \in 1..Len(mergedData.rows) : HasKey(mergedData.rows[i], ANNOTATION_COL)

(***************************************************************************)
(* The working table next to the base table                                *)
(***************************************************************************)
\* C28: without a reset during a pending parse, in every state with
\* currentStep >= 1 the working table and the base table captured at step 0
\* have the same number of rows and their i-th rows carry the same ID and
\* the same MZ, so that the MZ the tolerance merge reads for the i-th
\* working row from the i-th base-table row is that row's own
C28_WorkingTableKeepsItsKeys ==
    currentStep >= 1 =>
        /\ ~mergedData.isNull
        /\ ~netTable.isNull
        /\ Len(mergedData.rows) = Len(netTable.rows)
        /\ \A i \in 1..Len(mergedData.rows) :
              /\ Get(mergedData.rows[i], ID_COL) = Get(netTable.rows[i], ID_COL)
              /\ Get(mergedData.rows[i], MZ_COL) = Get(netTable.rows[i], MZ_COL)
              /\ MzToMatch(netTable.rows, i, MZ_COL) = Get(mergedData.rows[i], MZ_COL)

\* the three merges are done and a row of the working table has taken a
\* formula from the supplementary file; it is no longer the row of the base
\* table and carries its ID and MZ
C28_Witness ==
    /\ pending = {}
    /\ MergeDone(ToleranceStep)
    /\ currentStep > ToleranceStep
    /\ \E i \in 1..Len(mergedData.rows) :
          /\ NotNullish(Get(mergedData.rows[i], FORMULA_COL))
          /\ NotNullish(Get(mergedData.rows[i], COMPOUND_NAME_COL))
          /\ mergedData.rows[i] # netTable.rows[i]
          /\ Get(mergedData.rows[i], ID_COL) = Get(netTable.rows[i], ID_COL)
          /\ Get(mergedData.rows[i], MZ_COL) = Get(netTable.rows[i], MZ_COL)

(***************************************************************************)
(* The loading flag                                                        *)
(***************************************************************************)
\* C29: every operation that sets the loading flag clears it, on success
\* and on every error path, provided the file read settles: whenever the
\* flag is set it is cleared later, and no handler is pending or running
\* while no read is awaited with the flag left set
C29_LoadingFlagIsCleared ==
    /\ [](pending = {} => ~isLoading)
    /\ (isLoading ~> ~isLoading)

\* uploads have ended, one of them with an error, the tools have run, and
\* the flag is clear
C29_Witness ==
    /\ pending = {}
    /\ ~isLoading
    /\ error # ""
    /\ isDereplicated
    /\ isFiltered
    /\ currentStep >= 1

(***************************************************************************)
(* The final-result download and the table of the data view                *)
(***************************************************************************)
\* the table carries dereplication statuses
CarriesStatuses(table) ==
    \E i \in 1..Len(table.rows) : HasKey(table.rows[i], STATUS_KEY)

\* C30: whenever a table is shown in the data view and the final-result
\* download is invoked, the exported rows come from the table shown: they
\* are exactly its rows, restricted to the rows with status Retained, the
\* status taken off, only when the table carries dereplication statuses; a
\* non-empty shown table that has not been dereplicated is exported with
\* all its rows
C30_DownloadExportsTheShownTable ==
    [][(Download /\ ~DisplayData.isNull) =>
          IF CarriesStatuses(DisplayData)
          THEN OnlyRetainedOf(exported'.tableData, DisplayData)
          ELSE exported'.tableData.rows = DisplayData.rows]_vars

====
